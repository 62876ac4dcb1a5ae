---------------------------- MODULE ScreenProofs ----------------------------
(***************************************************************************)
(* Proofs about Screen and MCScreen, and about Sweeper, the game that is   *)
(* on the screen, along five inductive invariants.                         *)
(*                                                                         *)
(* ServedAlone: as long as the two goroutines have not rendered or sent at *)
(* the same time, everyone who is there is among sockets, and shows what   *)
(* the renderer takes for shown, or will when the Send that is going on    *)
(* has reached him.                                                        *)
(*                                                                         *)
(* Painted and Seen: what is buffered, sent and shown is made of drawn     *)
(* cells, things lie by their height, and once main has rendered a game    *)
(* that is over it is shown whole.                                         *)
(*                                                                         *)
(* Steamed: a particle is in the grid, and as old as the clock says.       *)
(*                                                                         *)
(* Boarded: what is revealed is what the picks reveal.  That revealSpot    *)
(* does so (SpotOpens) is shown by the number of hidden cells, as is that  *)
(* its recursion ends.                                                     *)
(*                                                                         *)
(* Counted: while no vote has raced with Reset, nobody is ahead of max but *)
(* the point that a vote has just been added to.                           *)
(***************************************************************************)
EXTENDS MCScreen, Sweeper, SequenceTheorems, FiniteSetTheorems, WellFoundedInduction, TLAPS

\* Between Render's first half and the end of Send.
Busy(g) == pc[g] \notin {"idle", "due"}
Alone == \A g, h \in Goroutines : Busy(g) /\ Busy(h) => g = h

Labels == {"idle", "due", "placed", "send", "sending", "removing"}

Shapes ==
    /\ previous = [i \in Idxs |-> previous[i]] /\ DOMAIN out = Goroutines /\ DOMAIN view = Clients
    /\ pc \in [Goroutines -> Labels]
    /\ nth \in [Goroutines -> Nat] /\ removals \in [Goroutines -> Seq(Nat)]
    /\ sockets \in Seq(Clients) /\ welcomes \in {2, 3}
    /\ hello \in [conn : Clients \cup {NoConn}, sent : 0 .. 3, due : {0, 2, 3}]

\* A connection is welcomed before it is one of sockets, and is one of them once.
Joined ==
    /\ \A i, j \in DOMAIN sockets : sockets[i] = sockets[j] => i = j
    /\ hello # Nobody => hello.conn \in Clients /\ hello.sent <= hello.due /\ hello.due # 0
    /\ hello.sent >= 2 => view[hello.conn] # <<>> \/ hello.conn \in left
    /\ \A i \in DOMAIN sockets : /\ sockets[i] # hello.conn
                                 /\ view[sockets[i]] # <<>> \/ sockets[i] \in left

\* The indexes that a Send has collected are those of sockets that it has passed, and their peers
\* have left.
Collected ==
    \A g \in Goroutines :
      /\ pc[g] # "sending" => nth[g] = 0
      /\ pc[g] = "sending" => nth[g] <= Len(sockets)
      /\ pc[g] \notin {"sending", "removing"} => removals[g] = <<>>
      /\ pc[g] = "removing" => removals[g] # <<>>
      /\ \A i \in DOMAIN removals[g] : /\ removals[g][i] + 1 \in DOMAIN sockets
                                       /\ sockets[removals[g][i] + 1] \in left

\* A Send that has not reached the k-th socket.
Behind(g, k) == pc[g] \in {"send", "sending"} /\ nth[g] < k

\* A picture that is one change behind what has been sent, or in step with it.
Lags(c, g) == Merged(view[c], out[g]) = previous

\* A client shows what was sent, and a client that a Send has not reached will when it has.
\* Before it is one of sockets its picture was sent whole, and it has missed nothing yet.
InStep ==
    /\ \A g \in Goroutines : pc[g] \in {"send", "sending"} => Merged(previous, out[g]) = previous
    /\ \A k \in DOMAIN sockets : sockets[k] \notin left \cup gap =>
         /\ \A g \in Goroutines : Behind(g, k) => Lags(sockets[k], g)
         /\ (\A g \in Goroutines : ~Behind(g, k)) => view[sockets[k]] = previous
    /\ hello # Nobody /\ hello.conn \notin left \cup gap =>
         /\ hello.sent = 2 => view[hello.conn] = NewRender
         /\ hello.sent = 3 =>
              /\ \A g \in Goroutines : pc[g] = "send" => Lags(hello.conn, g)
              /\ (\A g \in Goroutines : pc[g] # "send") => view[hello.conn] = previous

\* Whoever has a window is one of sockets, or about to be.
Kept == \A c \in Clients : view[c] # <<>> /\ c \notin left /\ hello.conn # c
                             => \E i \in DOMAIN sockets : sockets[i] = c

Served == Alone /\ Shapes /\ Joined /\ Collected /\ InStep /\ Kept /\ ~crash

\* The inductive invariant: once two Sends have overlapped, nothing is promised.
ServedAlone == ~overlap => Served
-----------------------------------------------------------------------------
(* Cells and pictures *)

\* A cell that is put over what it was put over changes nothing more.
LEMMA MergedTwice ==
    \A p, cells : Merged(Merged(p, cells), cells) = Merged(p, cells)
<1>1. \A cell, new : Merge(Merge(cell, new), new) = Merge(cell, new)
  <2> SUFFICES ASSUME NEW cell, NEW new PROVE Merge(Merge(cell, new), new) = Merge(cell, new)
    OBVIOUS
  <2>1. CASE IsEmpty(new)
    BY <2>1 DEF Merge
  <2>2. CASE ~IsEmpty(new) /\ new.v = "background"
    <3>1. \A c : Merge(c, new) = [c EXCEPT !.bg = new.bg]
      BY <2>2 DEF Merge
    <3>2. [[cell EXCEPT !.bg = new.bg] EXCEPT !.bg = new.bg] = [cell EXCEPT !.bg = new.bg]
      OBVIOUS
    <3> QED BY <3>1, <3>2
  <2>3. CASE ~IsEmpty(new) /\ new.v # "background"
    BY <2>3 DEF Merge
  <2> QED BY <2>1, <2>2, <2>3
<1>2. TAKE p, cells
<1>3. \A i \in Idxs : Merged(Merged(p, cells), cells)[i] = Merged(p, cells)[i]
  <2> TAKE i \in Idxs
  <2>1. \A q : Merged(q, cells)[i] = (IF i \in DOMAIN cells THEN Merge(q[i], cells[i]) ELSE q[i])
    BY DEF Merged
  <2> QED BY <1>1, <2>1
<1>4. \A q : Merged(q, cells) = [i \in Idxs |-> Merged(q, cells)[i]]
  BY DEF Merged
<1>5. Merged(Merged(p, cells), cells) = [i \in Idxs |-> Merged(Merged(p, cells), cells)[i]]
  BY <1>4
<1>6. Merged(p, cells) = [i \in Idxs |-> Merged(p, cells)[i]]
  BY <1>4
<1> QED BY <1>3, <1>5, <1>6

\* A picture without a change.
LEMMA MergedNothing ==
    ASSUME NEW p, p = [i \in Idxs |-> p[i]] PROVE Merged(p, NoCells) = p
BY DEF Merged, NoCells

\* A window has a cell: a picture that is there is not the empty one.
LEMMA PicturesAreThere == \A p : DOMAIN p = Idxs => p # <<>>
<1>1. Rows \in Nat /\ Cols \in Nat /\ Rows >= 1 /\ Cols >= 1
  BY WindowAssumption
<1>2. Rows * Cols >= 1
  BY <1>1
<1>3. 0 \in Idxs
  BY <1>1, <1>2 DEF Idxs
<1>4. DOMAIN <<>> = {}
  OBVIOUS
<1> QED BY <1>3, <1>4

\* The other of two goroutines.
LEMMA Others ==
    \A g \in Goroutines : /\ Other(g) \in Goroutines
                          /\ \A h \in Goroutines : h # g => h = Other(g)
<1> TAKE g \in Goroutines
<1>1. \E h \in Goroutines : h # g
  BY DEF Goroutines
<1>2. Other(g) \in Goroutines /\ Other(g) # g
  BY <1>1 DEF Other
<1> QED BY <1>2 DEF Goroutines
-----------------------------------------------------------------------------
(* Removing by index *)

\* Two members of a finite set of numbers differ in their rank.
LEMMA RanksDiffer ==
    ASSUME NEW K, IsFiniteSet(K), K \subseteq Nat, NEW k \in K, NEW l \in K,
           Rank(K, k) = Rank(K, l)
    PROVE  k = l
<1>1. \A x \in K : IsFiniteSet({j \in K : j <= x})
  BY FS_Subset
<1>2. ASSUME NEW x \in K, NEW y \in K, x < y PROVE Rank(K, x) # Rank(K, y)
  <2>0. x \in Nat /\ y \in Nat /\ \A j \in K : j \in Nat
    OBVIOUS
  <2>1. \A j \in K : j <= x => j <= y
    BY <1>2, <2>0
  <2>2. y <= y /\ ~(y <= x)
    BY <1>2, <2>0
  <2>3. {j \in K : j <= x} \in SUBSET {j \in K : j <= y}
    BY <2>1
  <2>4. {j \in K : j <= x} # {j \in K : j <= y}
    BY <2>2
  <2>5. Cardinality({j \in K : j <= x}) # Cardinality({j \in K : j <= y})
    BY <1>1, <2>3, <2>4, FS_Subset
  <2> QED BY <2>5 DEF Rank
<1>3. k \in Nat /\ l \in Nat
  OBVIOUS
<1>4. k < l \/ l < k \/ k = l
  BY <1>3
<1> QED BY <1>2, <1>4

\* In a finite set of numbers there is one of every rank.
LEMMA EveryRank ==
    ASSUME NEW K, IsFiniteSet(K), K \subseteq Nat, NEW n \in 1 .. Cardinality(K)
    PROVE  \E k \in K : Rank(K, k) = n
<1> DEFINE f == [k \in K |-> Rank(K, k)]
           N == 1 .. Cardinality(K)
<1>1. Cardinality(K) \in Nat
  BY FS_CardinalityType
<1>2. \A k \in K : IsFiniteSet({j \in K : j <= k}) /\ Cardinality({j \in K : j <= k}) \in Nat
  BY FS_Subset, FS_CardinalityType
<1>3. \A k \in K : Rank(K, k) \in N
  <2> TAKE k \in K
  <2>1. {j \in K : j <= k} # {}
    <3>1. k \in Nat /\ k <= k
      OBVIOUS
    <3>2. k \in {j \in K : j <= k}
      BY <3>1
    <3> QED BY <3>2
  <2>2. Cardinality({j \in K : j <= k}) # 0
    BY <1>2, <2>1, FS_EmptySet
  <2>3. Cardinality({j \in K : j <= k}) <= Cardinality(K)
    BY FS_Subset
  <2> QED BY <1>1, <1>2, <2>2, <2>3 DEF Rank
<1>5. f \in Injection(K, N)
  <2>1. f \in [K -> N]
    BY <1>3
  <2>2. \A k, l \in K : f[k] = f[l] => k = l
    BY RanksDiffer
  <2> QED BY <2>1, <2>2 DEF Injection, IsInjective
<1>6. IsFiniteSet(N) /\ Cardinality(N) = Cardinality(K)
  BY <1>1, FS_Interval
<1>7. f \in Surjection(K, N)
  BY <1>5, <1>6, FS_Injection
<1> QED BY <1>7 DEF Surjection
\* What Without leaves is what was not named, each once.
LEMMA WithoutLeaves ==
    ASSUME NEW S, NEW seq \in Seq(S), NEW idxs \in Seq(Nat),
           \A i, j \in DOMAIN seq : seq[i] = seq[j] => i = j
    PROVE  /\ Without(seq, idxs) \in Seq(S)
           /\ \A n \in DOMAIN Without(seq, idxs) :
                \E k \in DOMAIN seq : Without(seq, idxs)[n] = seq[k]
           /\ \A m, n \in DOMAIN Without(seq, idxs) :
                Without(seq, idxs)[m] = Without(seq, idxs)[n] => m = n
           /\ \A k \in DOMAIN seq : (\A i \in DOMAIN idxs : idxs[i] + 1 # k)
                => \E n \in DOMAIN Without(seq, idxs) : Without(seq, idxs)[n] = seq[k]
<1> DEFINE kept == DOMAIN seq \ {i + 1 : i \in ToSet(idxs)}
           nth_(n) == CHOOSE k \in kept : Rank(kept, k) = n
           rest == [n \in 1 .. Cardinality(kept) |-> seq[nth_(n)]]
<1>1. DOMAIN seq = 1 .. Len(seq) /\ Len(seq) \in Nat
  BY LenProperties
<1>2. IsFiniteSet(kept) /\ kept \subseteq Nat /\ Cardinality(kept) \in Nat
  <2>1. IsFiniteSet(1 .. Len(seq))
    BY <1>1, FS_Interval
  <2>2. kept \subseteq 1 .. Len(seq)
    BY <1>1
  <2> QED BY <2>1, <2>2, FS_Subset, FS_CardinalityType
<1>3. \A n \in 1 .. Cardinality(kept) : nth_(n) \in kept /\ Rank(kept, nth_(n)) = n
  <2> TAKE n \in 1 .. Cardinality(kept)
  <2> HIDE DEF kept
  <2> QED BY <1>2, EveryRank
<1>4. Without(seq, idxs) = rest
  BY Zenon DEF Without
<1>5. \A n \in 1 .. Cardinality(kept) : nth_(n) \in DOMAIN seq
  BY <1>3
<1>6. \A n \in 1 .. Cardinality(kept) : seq[nth_(n)] \in S
  <2> HIDE DEF nth_, kept
  <2> QED BY <1>1, <1>5, ElementOfSeq
<1> HIDE DEF nth_, kept
<1>10. rest \in Seq(S)
  BY <1>2, <1>6, IsASeq
<1>7. \A n \in DOMAIN rest : nth_(n) \in DOMAIN seq /\ rest[n] = seq[nth_(n)]
  BY <1>5
<1>8. \A m, n \in DOMAIN rest : rest[m] = rest[n] => m = n
  <2> TAKE m, n \in DOMAIN rest
  <2> HAVE rest[m] = rest[n]
  <2>1. nth_(m) = nth_(n)
    BY <1>7
  <2>2. Rank(kept, nth_(m)) = m /\ Rank(kept, nth_(n)) = n
    BY <1>3
  <2> QED BY <2>1, <2>2
<1>9. ASSUME NEW k \in DOMAIN seq, \A i \in DOMAIN idxs : idxs[i] + 1 # k
      PROVE  \E n \in DOMAIN rest : rest[n] = seq[k]
  <2>1. k \in kept
    BY <1>9 DEF kept, ToSet
  <2> DEFINE n == Rank(kept, k)
  <2>2. n \in 1 .. Cardinality(kept)
    <3>1. k \in Nat /\ k <= k
      BY <1>1
    <3>2. k \in {j \in kept : j <= k}
      BY <2>1, <3>1
    <3>3. IsFiniteSet({j \in kept : j <= k})
      BY <1>2, FS_Subset
    <3>4. Cardinality({j \in kept : j <= k}) # 0 /\ Cardinality({j \in kept : j <= k}) \in Nat
      BY <3>2, <3>3, FS_EmptySet, FS_CardinalityType
    <3>5. Cardinality({j \in kept : j <= k}) <= Cardinality(kept)
      BY <1>2, FS_Subset
    <3> QED BY <1>2, <3>4, <3>5 DEF Rank
  <2>3. nth_(n) \in kept /\ Rank(kept, nth_(n)) = Rank(kept, k)
    BY <1>3, <2>2
  <2>4. nth_(n) = k
    BY <1>2, <2>1, <2>3, RanksDiffer
  <2> QED BY <1>7, <2>2, <2>4
<1> HIDE DEF rest
<1> QED BY <1>4, <1>7, <1>8, <1>9, <1>10
-----------------------------------------------------------------------------
(* The invariant *)

\* Nobody is there at first.
LEMMA StartsServed == Init => Served
<1> SUFFICES ASSUME Init PROVE Served
  OBVIOUS
<1>1. /\ \A g \in Goroutines : pc[g] = "idle" /\ nth[g] = 0 /\ removals[g] = <<>>
      /\ sockets = <<>> /\ hello = Nobody /\ previous = NewRender /\ ~crash
      /\ \A c \in Clients : view[c] = <<>>
  BY DEF Init
<1>2. DOMAIN sockets = {}
  BY <1>1
<1>3. Alone /\ Joined /\ Kept
  BY <1>1, <1>2 DEF Alone, Busy, Joined, Kept, Nobody
<1>4. Shapes
  <2>1. <<>> \in Seq(Nat) /\ <<>> \in Seq(Clients)
    BY EmptySeq
  <2>2. Nobody \in [conn : Clients \cup {NoConn}, sent : 0 .. 3, due : {0, 2, 3}]
    BY DEF Nobody
  <2> QED BY <2>1, <2>2 DEF Init, Shapes, NewRender, Labels
<1>5. Collected
  <2>1. DOMAIN <<>> = {}
    OBVIOUS
  <2> QED BY <1>1, <2>1 DEF Collected
<1>6. InStep
  BY <1>1, <1>2 DEF InStep
<1> QED BY <1>1, <1>3, <1>4, <1>5, <1>6 DEF Served

\* What a step leaves alone when it touches no picture, no client and no socket.
Kernel == <<previous, out, nth, removals, sockets, hello, view, left, gap, crash>>

\* Such a step serves as before if nobody begins to render, send or remove, or stops.
LEMMA StillServed ==
    ASSUME Served, UNCHANGED Kernel, welcomes' \in {2, 3},
           pc' \in [Goroutines -> Labels],
           \A g \in Goroutines : pc'[g] = pc[g] \/ {pc[g], pc'[g]} \subseteq {"idle", "due", "placed"},
           Alone'
    PROVE  Served'
<1> USE DEF Kernel
<1>1. Shapes' /\ Joined' /\ Kept'
  BY DEF Served, Shapes, Joined, Kept
<1>2. Collected'
  <2> SUFFICES ASSUME NEW g \in Goroutines
               PROVE  /\ pc'[g] # "sending" => nth[g] = 0
                      /\ pc'[g] = "sending" => nth[g] <= Len(sockets)
                      /\ pc'[g] \notin {"sending", "removing"} => removals[g] = <<>>
                      /\ pc'[g] = "removing" => removals[g] # <<>>
                      /\ \A i \in DOMAIN removals[g] : /\ removals[g][i] + 1 \in DOMAIN sockets
                                                       /\ sockets[removals[g][i] + 1] \in left
    BY DEF Collected
  <2> QED BY DEF Served, Collected
<1>3. \A g \in Goroutines : /\ pc'[g] = "send" <=> pc[g] = "send"
                            /\ pc'[g] = "sending" <=> pc[g] = "sending"
  OBVIOUS
<1>4. InStep'
  BY <1>3 DEF Served, InStep, Behind, Lags
<1> QED BY <1>1, <1>2, <1>4 DEF Served

\* The game changes.
LEMMA MainServes == Served /\ Shows => Served'
<1> SUFFICES ASSUME Served, Shows PROVE Served'
  OBVIOUS
<1>1. UNCHANGED Kernel /\ UNCHANGED welcomes
  BY DEF Shows, Still, Kernel, screen, send, ends, history
<1>2. pc' = pc \/ (pc["main"] = "idle" /\ pc' = [pc EXCEPT !["main"] = "due"])
  BY DEF Shows, ShowLead, ShowCell, Finish, ShowBombs, ShowReset
<1>3. /\ pc' \in [Goroutines -> Labels]
      /\ \A g \in Goroutines : pc'[g] = pc[g] \/ {pc[g], pc'[g]} \subseteq {"idle", "due", "placed"}
      /\ \A g \in Goroutines : Busy(g)' <=> Busy(g)
  BY <1>2 DEF Served, Shapes, Labels, Busy
<1>4. Alone'
  BY <1>3 DEF Served, Alone, Busy
<1> QED BY <1>1, <1>3, <1>4, StillServed DEF Served, Shapes

\* A third welcome is registered.
LEMMA WelcomeMessageServes == Served /\ WelcomeMessage => Served'
<1> SUFFICES ASSUME Served, WelcomeMessage PROVE Served'
  OBVIOUS
<1>1. UNCHANGED Kernel /\ welcomes' = 3 /\ UNCHANGED pc
  BY DEF WelcomeMessage, Kernel, screen, send, ends, history
<1>2. Alone'
  BY <1>1 DEF Served, Alone, Busy
<1> QED BY <1>1, <1>2, StillServed DEF Served, Shapes

\* The first half of Render.
LEMMA PlaceServes == ASSUME Served, NEW g \in Goroutines, Place(g), ~overlap' PROVE Served'
<1>1. UNCHANGED Kernel /\ UNCHANGED welcomes
  BY DEF Place, Kernel, send, ends
<1>2. pc[g] \in {"idle", "due"} /\ pc' = [pc EXCEPT ![g] = "placed"]
  BY DEF Place
<1>3. pc[Other(g)] \in {"idle", "due"}
  BY DEF Place
<1>4. pc' \in [Goroutines -> Labels]
  BY <1>2 DEF Served, Shapes, Labels
<1>5. \A h \in Goroutines : h # g => ~Busy(h)'
  BY <1>2, <1>3, Others DEF Served, Shapes, Busy
<1>6. Alone'
  BY <1>5 DEF Alone, Busy
<1> QED BY <1>1, <1>2, <1>4, <1>6, StillServed DEF Served, Shapes

\* Nobody else is busy while one goroutine is.
LEMMA NobodyElse ==
    ASSUME Served, NEW g \in Goroutines, Busy(g)
    PROVE  \A h \in Goroutines : h # g => pc[h] \in {"idle", "due"}
BY DEF Served, Alone, Busy

\* A goroutine that goes on stays the only one that is busy.
LEMMA GoesOnAlone ==
    ASSUME Served, NEW g \in Goroutines, Busy(g), NEW l \in Labels, pc' = [pc EXCEPT ![g] = l]
    PROVE  Alone' /\ pc' \in [Goroutines -> Labels] /\ pc'[g] = l
           /\ \A h \in Goroutines \ {g} : pc'[h] = pc[h] /\ pc[h] \in {"idle", "due"}
<1>1. pc' \in [Goroutines -> Labels] /\ pc'[g] = l /\ \A h \in Goroutines \ {g} : pc'[h] = pc[h]
  BY DEF Served, Shapes
<1>2. \A h \in Goroutines \ {g} : pc[h] \in {"idle", "due"}
  BY NobodyElse
<1> QED BY <1>1, <1>2 DEF Alone, Busy

\* The second half of Render: what was sent before and what has changed are what is sent now.
LEMMA CompareServes == ASSUME Served, NEW g \in Goroutines, Compare(g) PROVE Served'
<1> DEFINE cells == Changes(buffer, previous)
<1>1. /\ pc[g] = "placed" /\ UNCHANGED <<nth, removals, sockets, welcomes, hello, view, left, gap, crash>>
      /\ out' = [out EXCEPT ![g] = cells] /\ previous' = Merged(previous, cells)
      /\ pc' = [pc EXCEPT ![g] = IF g = "tick" /\ cells = NoCells THEN "idle" ELSE "send"]
  BY DEF Compare, send, ends, history
<1> HIDE DEF cells
<1>2. Busy(g)
  BY <1>1 DEF Busy
<1>3. PICK l \in Labels : /\ pc' = [pc EXCEPT ![g] = l]
                          /\ l = "send" \/ (l = "idle" /\ cells = NoCells)
  BY <1>1 DEF Labels
<1>4. /\ Alone' /\ pc' \in [Goroutines -> Labels] /\ pc'[g] = l
      /\ \A h \in Goroutines \ {g} : pc'[h] = pc[h] /\ pc[h] \in {"idle", "due"}
  BY <1>2, <1>3, GoesOnAlone
<1>5. previous' = [i \in Idxs |-> previous'[i]]
  BY <1>1 DEF Merged
<1>6. Shapes'
  BY <1>1, <1>4, <1>5 DEF Served, Shapes
<1>7. Joined' /\ Kept'
  BY <1>1 DEF Served, Joined, Kept
<1>8. Collected'
  <2> SUFFICES ASSUME NEW h \in Goroutines
               PROVE  /\ pc'[h] # "sending" => nth[h] = 0
                      /\ pc'[h] = "sending" => nth[h] <= Len(sockets)
                      /\ pc'[h] \notin {"sending", "removing"} => removals[h] = <<>>
                      /\ pc'[h] = "removing" => removals[h] # <<>>
                      /\ \A i \in DOMAIN removals[h] : /\ removals[h][i] + 1 \in DOMAIN sockets
                                                       /\ sockets[removals[h][i] + 1] \in left
    BY <1>1 DEF Collected
  <2> QED BY <1>1, <1>4 DEF Served, Collected
<1>9. InStep'
  <2>1. /\ \A h \in Goroutines : pc[h] \notin {"send", "sending"}
        /\ \A h \in Goroutines : pc'[h] # "sending"
        /\ \A h \in Goroutines : pc'[h] = "send" => h = g
    BY <1>1, <1>4
  <2>2. \A h \in Goroutines : \A k : ~Behind(h, k)
    BY <2>1 DEF Behind
  <2>3. out'[g] = cells
    BY <1>1 DEF Served, Shapes
  <2>4. pc'[g] # "send" => previous' = previous
    <3> SUFFICES ASSUME pc'[g] # "send" PROVE previous' = previous
      OBVIOUS
    <3>1. cells = NoCells
      BY <1>3, <1>4
    <3>2. previous = [i \in Idxs |-> previous[i]]
      BY DEF Served, Shapes
    <3> QED BY <1>1, <3>1, <3>2, MergedNothing
  <2>5. Merged(previous', cells) = previous'
    BY <1>1, MergedTwice
  <2>6. \A h \in Goroutines : pc'[h] \in {"send", "sending"} => Merged(previous', out'[h]) = previous'
    BY <2>1, <2>3, <2>5
  <2>7. ASSUME NEW k \in DOMAIN sockets, sockets[k] \notin left \cup gap
        PROVE  /\ \A h \in Goroutines : Behind(h, k)' => Merged(view[sockets[k]], out'[h]) = previous'
               /\ (\A h \in Goroutines : ~Behind(h, k)') => view[sockets[k]] = previous'
    <3>1. view[sockets[k]] = previous
      BY <2>2, <2>7 DEF Served, InStep
    <3>2. nth[g] = 0 /\ k >= 1
      BY <1>1, LenProperties DEF Served, Shapes, Collected
    <3>3. \A h \in Goroutines : Behind(h, k)' => h = g
      BY <2>1 DEF Behind
    <3>4. pc'[g] = "send" => Behind(g, k)'
      BY <1>1, <3>2, LenProperties DEF Behind, Served, Shapes
    <3> QED BY <1>1, <2>3, <2>4, <3>1, <3>3, <3>4
  <2>8. ASSUME hello # Nobody, hello.conn \notin left \cup gap, hello.sent = 3
        PROVE  /\ \A h \in Goroutines : pc'[h] = "send" => Merged(view[hello.conn], out'[h]) = previous'
               /\ (\A h \in Goroutines : pc'[h] # "send") => view[hello.conn] = previous'
    <3>1. view[hello.conn] = previous
      BY <2>1, <2>8 DEF Served, InStep
    <3> QED BY <1>1, <2>1, <2>3, <2>4, <3>1
  <2>9. hello # Nobody /\ hello.conn \notin left \cup gap /\ hello.sent = 2 => view[hello.conn] = NewRender
    BY DEF Served, InStep
  <2> HIDE DEF cells
  <2> QED BY <1>1, <2>6, <2>7, <2>8, <2>9 DEF InStep, Lags
<1> QED BY <1>1, <1>4, <1>6, <1>7, <1>8, <1>9 DEF Served

\* Send begins to read sockets: who is between its picture and its place in them has a gap.
LEMMA RLockServes == ASSUME Served, NEW g \in Goroutines, RLock(g) PROVE Served'
<1>1. /\ pc[g] = "send" /\ pc' = [pc EXCEPT ![g] = "sending"]
      /\ UNCHANGED <<previous, out, nth, removals, sockets, welcomes, hello, view, left, crash>>
      /\ gap' = IF hello.sent = 3 THEN gap \cup ({hello.conn} \ left) ELSE gap
  BY DEF RLock, screen, send, ends
<1>2. Busy(g) /\ "sending" \in Labels
  BY <1>1 DEF Busy, Labels
<1>3. /\ Alone' /\ pc' \in [Goroutines -> Labels] /\ pc'[g] = "sending"
      /\ \A h \in Goroutines \ {g} : pc'[h] = pc[h] /\ pc[h] \in {"idle", "due"}
  BY <1>1, <1>2, GoesOnAlone
<1>4. Shapes' /\ Joined' /\ Kept'
  BY <1>1, <1>3 DEF Served, Shapes, Joined, Kept
<1>5. Collected'
  <2>1. nth[g] = 0 /\ Len(sockets) \in Nat
    BY <1>1, LenProperties DEF Served, Collected, Shapes
  <2> SUFFICES ASSUME NEW h \in Goroutines
               PROVE  /\ pc'[h] # "sending" => nth[h] = 0
                      /\ pc'[h] = "sending" => nth[h] <= Len(sockets)
                      /\ pc'[h] \notin {"sending", "removing"} => removals[h] = <<>>
                      /\ pc'[h] = "removing" => removals[h] # <<>>
                      /\ \A i \in DOMAIN removals[h] : /\ removals[h][i] + 1 \in DOMAIN sockets
                                                       /\ sockets[removals[h][i] + 1] \in left
    BY <1>1 DEF Collected
  <2> QED BY <1>1, <1>3, <2>1 DEF Served, Collected
<1>6. InStep'
  <2>1. \A h \in Goroutines : pc'[h] \in {"send", "sending"} <=> pc[h] \in {"send", "sending"}
    BY <1>1, <1>3
  <2>2. \A h \in Goroutines : \A k : Behind(h, k)' <=> Behind(h, k)
    BY <1>1, <2>1 DEF Behind
  <2>3. gap \subseteq gap' /\ (hello.sent = 3 => hello.conn \in left \cup gap')
    BY <1>1
  <2>4. \A h \in Goroutines : pc'[h] \in {"send", "sending"} => Merged(previous, out[h]) = previous
    BY <2>1 DEF Served, InStep
  <2>5. ASSUME NEW k \in DOMAIN sockets, sockets[k] \notin left \cup gap'
        PROVE  /\ \A h \in Goroutines : Behind(h, k)' => Merged(view[sockets[k]], out[h]) = previous
               /\ (\A h \in Goroutines : ~Behind(h, k)') => view[sockets[k]] = previous
    BY <2>2, <2>3, <2>5 DEF Served, InStep, Lags
  <2>6. hello # Nobody /\ hello.conn \notin left \cup gap' => hello.sent # 3 /\ (hello.sent = 2 => view[hello.conn] = NewRender)
    BY <2>3 DEF Served, InStep
  <2> QED BY <1>1, <2>4, <2>5, <2>6 DEF InStep, Lags
<1> QED BY <1>1, <1>3, <1>4, <1>5, <1>6 DEF Served

\* A write to a socket: its client catches up, or has left.
LEMMA WriteServes == ASSUME Served, NEW g \in Goroutines, Write(g) PROVE Served'
<1> DEFINE c == sockets[nth[g] + 1]
<1>1. /\ pc[g] = "sending" /\ nth[g] < Len(sockets) /\ nth' = [nth EXCEPT ![g] = @ + 1]
      /\ UNCHANGED <<pc, previous, out, sockets, welcomes, hello, left, gap, crash>>
      /\ \/ /\ view' = IF c \in left THEN view ELSE [view EXCEPT ![c] = Merged(@, out[g])]
            /\ UNCHANGED removals
         \/ /\ c \in left /\ UNCHANGED view
            /\ removals' = [removals EXCEPT ![g] = Append(@, nth[g])]
  BY DEF Write, WriteFails, WriteOk, Index, screen, history
<1>2. DOMAIN sockets = 1 .. Len(sockets) /\ Len(sockets) \in Nat /\ nth[g] \in Nat
  BY LenProperties DEF Served, Shapes
<1>3. nth[g] + 1 \in DOMAIN sockets /\ c \in Clients
  BY <1>1, <1>2, ElementOfSeq DEF Served, Shapes
<1>4. /\ Busy(g) /\ \A h \in Goroutines \ {g} : pc[h] \in {"idle", "due"}
      /\ nth' \in [Goroutines -> Nat] /\ nth'[g] = nth[g] + 1
  <2>1. Busy(g)
    BY <1>1 DEF Busy
  <2>2. nth' \in [Goroutines -> Nat] /\ nth'[g] = nth[g] + 1
    BY <1>1, <1>2 DEF Served, Shapes
  <2> QED BY <2>1, <2>2, NobodyElse
<1>5. DOMAIN view' = Clients /\ DOMAIN view = Clients /\ \A d \in Clients \ {c} : view'[d] = view[d]
  BY <1>1 DEF Served, Shapes
<1>6. (view'[c] = view[c] /\ c \in left) \/ (view'[c] = Merged(view[c], out[g]) /\ c \notin left)
  BY <1>1, <1>3, <1>5
<1> HIDE DEF c
<1>7. \A d \in Clients : (view'[d] # <<>> <=> view[d] # <<>>) \/ (d = c /\ d \notin left)
  BY <1>5, <1>6
<1>8. view'[c] # <<>> \/ c \in left
  <2>1. \A p, cells : DOMAIN Merged(p, cells) = Idxs
    BY DEF Merged
  <2> QED BY <1>6, <2>1, PicturesAreThere
<1>9. Alone' /\ Shapes'
  <2>1. removals' \in [Goroutines -> Seq(Nat)]
    <3>1. \A q \in Seq(Nat) : Append(q, nth[g]) \in Seq(Nat)
      BY <1>2, AppendProperties
    <3>2. removals \in [Goroutines -> Seq(Nat)]
      BY DEF Served, Shapes
    <3>3. removals' = removals \/ removals' = [removals EXCEPT ![g] = Append(@, nth[g])]
      BY <1>1
    <3> QED BY <3>1, <3>2, <3>3
  <2> QED BY <1>1, <1>4, <1>5, <2>1 DEF Served, Shapes, Alone, Busy
<1>10. Joined'
  <2>1. \A i \in DOMAIN sockets : sockets[i] \in Clients
    BY <1>2, ElementOfSeq DEF Served, Shapes
  <2>2. ASSUME NEW d \in Clients, view[d] # <<>> \/ d \in left
        PROVE  view'[d] # <<>> \/ d \in left
    BY <1>7, <1>8, <2>2
  <2>3. hello.sent >= 2 => hello.conn \in Clients
    BY DEF Served, Joined, Nobody
  <2> QED BY <1>1, <2>1, <2>2, <2>3 DEF Served, Joined
<1>11. Collected'
  <2> SUFFICES ASSUME NEW h \in Goroutines
               PROVE  /\ pc[h] # "sending" => nth'[h] = 0
                      /\ pc[h] = "sending" => nth'[h] <= Len(sockets)
                      /\ pc[h] \notin {"sending", "removing"} => removals'[h] = <<>>
                      /\ pc[h] = "removing" => removals'[h] # <<>>
                      /\ \A i \in DOMAIN removals'[h] : /\ removals'[h][i] + 1 \in DOMAIN sockets
                                                        /\ sockets[removals'[h][i] + 1] \in left
    BY <1>1 DEF Collected
  <2>1. CASE h # g
    BY <1>1, <1>4, <2>1 DEF Served, Collected, Shapes
  <2>2. CASE h = g /\ UNCHANGED removals
    BY <1>1, <1>2, <1>4, <2>2 DEF Served, Collected
  <2>3. CASE h = g /\ c \in left /\ removals' = [removals EXCEPT ![g] = Append(@, nth[g])]
    <3>1. removals[g] \in Seq(Nat)
      BY DEF Served, Shapes
    <3> DEFINE q == removals[g]
    <3>2. /\ removals'[g] = Append(q, nth[g]) /\ q \in Seq(Nat)
          /\ DOMAIN q = 1 .. Len(q) /\ Len(q) \in Nat
      BY <2>3, <3>1, LenProperties DEF Served, Shapes
    <3>3. \A i \in DOMAIN q : q[i] + 1 \in DOMAIN sockets /\ sockets[q[i] + 1] \in left
      BY DEF Served, Collected
    <3> HIDE DEF q
    <3>4. /\ DOMAIN Append(q, nth[g]) = 1 .. Len(q) + 1
          /\ \A i \in 1 .. Len(q) : Append(q, nth[g])[i] = q[i]
          /\ Append(q, nth[g])[Len(q) + 1] = nth[g]
      BY <1>2, <3>2, AppendProperties, LenProperties
    <3>5. \A i \in DOMAIN removals'[g] : /\ removals'[g][i] + 1 \in DOMAIN sockets
                                         /\ sockets[removals'[g][i] + 1] \in left
      <4> TAKE i \in DOMAIN removals'[g]
      <4>1. CASE i \in 1 .. Len(q)
        BY <3>2, <3>3, <3>4, <4>1
      <4>2. CASE i = Len(q) + 1
        BY <1>3, <2>3, <3>2, <3>4, <4>2 DEF c
      <4> QED BY <3>2, <3>4, <4>1, <4>2
    <3> QED BY <1>1, <1>2, <1>4, <2>3, <3>5
  <2> QED BY <1>1, <2>1, <2>2, <2>3 DEF c
<1>12. Kept'
  BY <1>1, <1>3, <1>7 DEF Served, Kept, c
<1>13. InStep'
  <2>1. /\ Merged(previous, out[g]) = previous
        /\ \A h \in Goroutines : pc[h] \in {"send", "sending"} => h = g
    BY <1>1, <1>4 DEF Served, InStep
  <2>2. \A k : \A h \in Goroutines : /\ Behind(h, k) <=> h = g /\ nth[g] < k
                                     /\ Behind(h, k)' <=> h = g /\ nth[g] + 1 < k
    BY <1>1, <1>4, <2>1 DEF Behind
  <2>3. \A d \in Clients : d # c => view'[d] = view[d]
    BY <1>5
  <2>4. ASSUME NEW k \in DOMAIN sockets, sockets[k] \notin left \cup gap
        PROVE  /\ \A h \in Goroutines : Behind(h, k)' => Merged(view'[sockets[k]], out[h]) = previous
               /\ (\A h \in Goroutines : ~Behind(h, k)') => view'[sockets[k]] = previous
    <3>1. CASE k = nth[g] + 1
      <4>1. Merged(view[c], out[g]) = previous
        <5>1. Behind(g, k)
          BY <1>2, <2>2, <3>1
        <5>2. Lags(sockets[k], g)
          BY <2>4, <5>1 DEF Served, InStep
        <5> QED BY <3>1, <5>2 DEF Lags, c
      <4>2. view'[c] = previous
        BY <1>6, <2>4, <3>1, <4>1 DEF c
      <4>3. \A h \in Goroutines : ~Behind(h, k)'
        BY <1>2, <2>2, <3>1
      <4> QED BY <3>1, <4>2, <4>3 DEF c
    <3>2. CASE k # nth[g] + 1
      <4>1. sockets[k] \in Clients
        BY <1>2, ElementOfSeq DEF Served, Shapes
      <4>2. sockets[k] # c
        BY <1>3, <3>2 DEF Served, Joined, c
      <4>3. view'[sockets[k]] = view[sockets[k]]
        BY <2>3, <4>1, <4>2
      <4>4. \A h \in Goroutines : Behind(h, k)' <=> Behind(h, k)
        <5>1. k \in Nat
          BY <1>2
        <5>2. nth[g] + 1 < k <=> nth[g] < k
          BY <1>2, <3>2, <5>1
        <5> QED BY <2>2, <5>2
      <4>5. /\ \A h \in Goroutines : Behind(h, k) => Merged(view[sockets[k]], out[h]) = previous
            /\ (\A h \in Goroutines : ~Behind(h, k)) => view[sockets[k]] = previous
        BY <2>4 DEF Served, InStep, Lags
      <4> QED BY <4>3, <4>4, <4>5
    <3> QED BY <3>1, <3>2
  <2>5. hello # Nobody => view'[hello.conn] = view[hello.conn]
    <3>1. hello.conn # c
      BY <1>3 DEF Served, Joined, c
    <3> QED BY <2>3, <3>1 DEF Served, Joined
  <2>6. \A h \in Goroutines : pc[h] \in {"send", "sending"} => Merged(previous, out[h]) = previous
    BY <2>1
  <2>7. hello # Nobody /\ hello.conn \notin left \cup gap =>
          /\ hello.sent = 2 => view'[hello.conn] = NewRender
          /\ hello.sent = 3 =>
               /\ \A h \in Goroutines : pc[h] = "send" => Merged(view'[hello.conn], out[h]) = previous
               /\ (\A h \in Goroutines : pc[h] # "send") => view'[hello.conn] = previous
    BY <2>5 DEF Served, InStep, Lags
  <2> QED BY <1>1, <2>4, <2>6, <2>7 DEF InStep, Lags
<1> QED BY <1>1, <1>9, <1>10, <1>11, <1>12, <1>13 DEF Served

\* The end of Send, or of its first half: it has reached every socket.
LEMMA RUnlockServes == ASSUME Served, NEW g \in Goroutines, RUnlock(g) PROVE Served'
<1>1. /\ pc[g] = "sending" /\ nth[g] = Len(sockets)
      /\ pc' = [pc EXCEPT ![g] = IF removals[g] = <<>> THEN "idle" ELSE "removing"]
      /\ nth' = [nth EXCEPT ![g] = 0] /\ out' = [out EXCEPT ![g] = NoCells]
      /\ UNCHANGED <<previous, removals, sockets, welcomes, hello, view, left, gap, crash>>
  BY DEF RUnlock, ends, history
<1>2. Busy(g)
  BY <1>1 DEF Busy
<1>3. PICK l \in Labels : /\ pc' = [pc EXCEPT ![g] = l]
                          /\ l = IF removals[g] = <<>> THEN "idle" ELSE "removing"
  BY <1>1 DEF Labels
<1>4. /\ Alone' /\ pc' \in [Goroutines -> Labels] /\ pc'[g] = l
      /\ \A h \in Goroutines \ {g} : pc'[h] = pc[h] /\ pc[h] \in {"idle", "due"}
  BY <1>2, <1>3, GoesOnAlone
<1>5. \A h \in Goroutines : pc'[h] \notin {"send", "sending"}
  BY <1>3, <1>4
<1>6. Shapes' /\ Joined' /\ Kept'
  BY <1>1, <1>4 DEF Served, Shapes, Joined, Kept
<1>7. Collected'
  <2> SUFFICES ASSUME NEW h \in Goroutines
               PROVE  /\ pc'[h] # "sending" => nth'[h] = 0
                      /\ pc'[h] = "sending" => nth'[h] <= Len(sockets)
                      /\ pc'[h] \notin {"sending", "removing"} => removals[h] = <<>>
                      /\ pc'[h] = "removing" => removals[h] # <<>>
                      /\ \A i \in DOMAIN removals[h] : /\ removals[h][i] + 1 \in DOMAIN sockets
                                                       /\ sockets[removals[h][i] + 1] \in left
    BY <1>1 DEF Collected
  <2>1. CASE h = g
    BY <1>1, <1>3, <1>4, <2>1 DEF Served, Collected, Shapes
  <2>2. CASE h # g
    BY <1>1, <1>4, <2>2 DEF Served, Collected, Shapes
  <2> QED BY <2>1, <2>2
<1>8. InStep'
  <2>1. \A h \in Goroutines : \A k : ~Behind(h, k)'
    BY <1>5 DEF Behind
  <2>2. ASSUME NEW k \in DOMAIN sockets, sockets[k] \notin left \cup gap
        PROVE  view[sockets[k]] = previous
    <3>1. k \in Nat /\ k <= Len(sockets) /\ Len(sockets) \in Nat
      BY LenProperties DEF Served, Shapes
    <3>2. \A h \in Goroutines : ~Behind(h, k)
      BY <1>1, <1>4, <3>1 DEF Behind
    <3> QED BY <2>2, <3>2 DEF Served, InStep
  <2>3. hello # Nobody /\ hello.conn \notin left \cup gap =>
          /\ hello.sent = 2 => view[hello.conn] = NewRender
          /\ hello.sent = 3 => view[hello.conn] = previous
    <3>1. \A h \in Goroutines : pc[h] # "send"
      BY <1>1, <1>4
    <3> QED BY <3>1 DEF Served, InStep
  <2> QED BY <1>1, <1>5, <2>1, <2>2, <2>3 DEF InStep
<1> QED BY <1>1, <1>4, <1>6, <1>7, <1>8 DEF Served

\* The rest of Send: what it has collected still names those that failed, and goes.
LEMMA RemoveSocketsServes == ASSUME Served, NEW g \in Goroutines, RemoveSockets(g) PROVE Served'
<1> DEFINE rest == Without(sockets, removals[g])
<1>1. /\ pc[g] = "removing" /\ pc' = [pc EXCEPT ![g] = "idle"]
      /\ removals' = [removals EXCEPT ![g] = <<>>]
      /\ UNCHANGED <<previous, out, nth, welcomes, hello, view, left, gap>>
      /\ Latest(removals[g]) <= Len(sockets) => sockets' = rest /\ UNCHANGED crash
  <2>1. IF Latest(removals[g]) > Len(sockets) THEN crash' = TRUE /\ UNCHANGED sockets
        ELSE sockets' = rest /\ UNCHANGED crash
    BY DEF RemoveSockets
  <2>2. Latest(removals[g]) <= Len(sockets) => ~(Latest(removals[g]) > Len(sockets))
    <3>1. removals[g] \in Seq(Nat) /\ removals[g] # <<>> /\ Len(sockets) \in Nat
      BY LenProperties DEF RemoveSockets, Served, Shapes, Collected
    <3>2. removals[g][Len(removals[g])] \in Nat
      BY <3>1, LenProperties, ElementOfSeq, EmptySeq
    <3> QED BY <3>1, <3>2 DEF Latest
  <2> QED BY <2>1, <2>2 DEF RemoveSockets, screen, ends, history
<1>2. /\ removals \in [Goroutines -> Seq(Nat)] /\ removals[g] \in Seq(Nat)
      /\ sockets \in Seq(Clients) /\ removals[g] # <<>>
      /\ \A i \in DOMAIN removals[g] : /\ removals[g][i] + 1 \in DOMAIN sockets
                                       /\ sockets[removals[g][i] + 1] \in left
  BY <1>1 DEF Served, Shapes, Collected
<1>3. sockets' = rest /\ ~crash'
  <2>1. Len(removals[g]) \in DOMAIN removals[g]
    BY <1>2, LenProperties, EmptySeq
  <2>2. Latest(removals[g]) \in DOMAIN sockets
    BY <1>2, <2>1 DEF Latest
  <2>3. Latest(removals[g]) <= Len(sockets)
    BY <1>2, <2>2, LenProperties
  <2> QED BY <1>1, <2>3 DEF Served
<1>4. /\ rest \in Seq(Clients)
      /\ \A n \in DOMAIN rest : \E k \in DOMAIN sockets : rest[n] = sockets[k]
      /\ \A m, n \in DOMAIN rest : rest[m] = rest[n] => m = n
      /\ \A k \in DOMAIN sockets : (\A i \in DOMAIN removals[g] : removals[g][i] + 1 # k)
           => \E n \in DOMAIN rest : rest[n] = sockets[k]
  <2>1. \A i, j \in DOMAIN sockets : sockets[i] = sockets[j] => i = j
    BY DEF Served, Joined
  <2> QED BY <1>2, <2>1, WithoutLeaves
<1> HIDE DEF rest
<1>5. Busy(g) /\ "idle" \in Labels
  BY <1>1 DEF Busy, Labels
<1>6. /\ Alone' /\ pc' \in [Goroutines -> Labels] /\ pc'[g] = "idle"
      /\ \A h \in Goroutines \ {g} : pc'[h] = pc[h] /\ pc[h] \in {"idle", "due"}
  BY <1>1, <1>5, GoesOnAlone
<1>7. Shapes'
  <2>1. removals' \in [Goroutines -> Seq(Nat)]
    <3>1. <<>> \in Seq(Nat)
      BY EmptySeq
    <3> QED BY <1>1, <1>2, <3>1
  <2> QED BY <1>1, <1>3, <1>4, <1>6, <2>1 DEF Served, Shapes
<1>8. Joined'
  <2>1. \A n \in DOMAIN rest : rest[n] # hello.conn /\ (view[rest[n]] # <<>> \/ rest[n] \in left)
    BY <1>4 DEF Served, Joined
  <2> QED BY <1>1, <1>3, <1>4, <2>1 DEF Served, Joined
<1>9. Collected'
  <2> SUFFICES ASSUME NEW h \in Goroutines
               PROVE  /\ pc'[h] # "sending" => nth[h] = 0
                      /\ pc'[h] = "sending" => nth[h] <= Len(sockets')
                      /\ pc'[h] \notin {"sending", "removing"} => removals'[h] = <<>>
                      /\ pc'[h] = "removing" => removals'[h] # <<>>
                      /\ \A i \in DOMAIN removals'[h] : /\ removals'[h][i] + 1 \in DOMAIN sockets'
                                                        /\ sockets'[removals'[h][i] + 1] \in left
    BY <1>1 DEF Collected
  <2>1. removals'[h] = <<>> /\ nth[h] = 0 /\ pc'[h] \notin {"sending", "removing"}
    <3>1. CASE h = g
      BY <1>1, <1>2, <1>6, <3>1 DEF Served, Collected
    <3>2. CASE h # g
      BY <1>1, <1>2, <1>6, <3>2 DEF Served, Collected
    <3> QED BY <3>1, <3>2
  <2>2. DOMAIN <<>> = {}
    OBVIOUS
  <2> QED BY <2>1, <2>2
<1>10. \A h \in Goroutines : pc[h] \notin {"send", "sending"} /\ pc'[h] \notin {"send", "sending"}
  BY <1>1, <1>6
<1>11. InStep'
  <2>1. \A h \in Goroutines : \A k : ~Behind(h, k) /\ ~Behind(h, k)'
    BY <1>10 DEF Behind
  <2>2. ASSUME NEW n \in DOMAIN rest, rest[n] \notin left \cup gap
        PROVE  view[rest[n]] = previous
    <3>1. PICK k \in DOMAIN sockets : rest[n] = sockets[k]
      BY <1>4
    <3> QED BY <2>1, <2>2, <3>1 DEF Served, InStep
  <2>3. hello # Nobody /\ hello.conn \notin left \cup gap =>
          /\ hello.sent = 2 => view[hello.conn] = NewRender
          /\ hello.sent = 3 => view[hello.conn] = previous
    BY <1>10 DEF Served, InStep
  <2> QED BY <1>1, <1>3, <1>10, <2>1, <2>2, <2>3 DEF InStep
<1>12. Kept'
  <2> SUFFICES ASSUME NEW c \in Clients, view[c] # <<>>, c \notin left, hello.conn # c
               PROVE  \E n \in DOMAIN rest : rest[n] = c
    BY <1>1, <1>3 DEF Kept
  <2>1. PICK k \in DOMAIN sockets : sockets[k] = c
    BY DEF Served, Kept
  <2>2. \A i \in DOMAIN removals[g] : removals[g][i] + 1 # k
    BY <1>2, <2>1
  <2> QED BY <1>4, <2>1, <2>2
<1> QED BY <1>3, <1>6, <1>7, <1>8, <1>9, <1>11, <1>12 DEF Served
-----------------------------------------------------------------------------
(* Clients come and go *)

\* A connection is accepted: there is no picture yet.
LEMMA AcceptServes == ASSUME Served, NEW c \in Clients, Accept(c) PROVE Served'
<1>1. /\ hello = Nobody /\ view[c] = <<>> /\ c \notin left
      /\ hello' = [conn |-> c, sent |-> 0, due |-> welcomes]
      /\ UNCHANGED <<pc, previous, out, nth, removals, sockets, welcomes, view, left, gap, crash>>
  BY DEF Accept, screen, send, ends, history
<1>2. Alone' /\ Shapes' /\ Collected'
  BY <1>1 DEF Served, Alone, Busy, Shapes, Collected
<1>3. Joined'
  <2>1. welcomes \in {2, 3}
    BY DEF Served, Shapes
  <2> QED BY <1>1, <2>1 DEF Served, Joined
<1>4. hello'.conn = c /\ hello'.sent = 0 /\ hello' # Nobody
  BY <1>1 DEF Nobody, NoConn, Clients
<1>5. InStep'
  BY <1>1, <1>4 DEF Served, InStep, Behind, Lags
<1>6. Kept'
  BY <1>1, <1>4 DEF Served, Kept, Nobody, NoConn, Clients
<1> QED BY <1>1, <1>2, <1>3, <1>5, <1>6 DEF Served

\* One of the welcome messages is written, the picture too, or cannot be.
LEMMA WelcomeServes == ASSUME Served, Welcome PROVE Served'
<1> DEFINE c == hello.conn
           n == hello.sent + 1
<1>1. /\ hello # Nobody /\ hello.sent < hello.due
      /\ UNCHANGED <<pc, previous, out, nth, removals, sockets, welcomes, left, gap, crash>>
      /\ \/ /\ view' = IF c \in left THEN view ELSE [view EXCEPT ![c] = Shown(c, n)]
            /\ hello' = [hello EXCEPT !.sent = @ + 1]
         \/ c \in left /\ hello' = Nobody /\ UNCHANGED view
  BY DEF Welcome, WriteOk, WriteFails, screen, send, history
<1>2. /\ c \in Clients /\ hello.sent \in 0 .. 3 /\ hello.due \in {2, 3}
      /\ hello = [conn |-> c, sent |-> hello.sent, due |-> hello.due]
      /\ DOMAIN view = Clients /\ sockets \in Seq(Clients)
  BY <1>1 DEF Served, Shapes, Joined
<1>3. \A k \in DOMAIN sockets : sockets[k] \in Clients /\ sockets[k] # c /\ sockets[k] # NoConn
  <2>1. \A k \in DOMAIN sockets : sockets[k] \in Clients
    BY <1>2, LenProperties, ElementOfSeq
  <2> QED BY <2>1 DEF Served, Joined, NoConn, Clients
<1>4. Alone' /\ Collected'
  BY <1>1 DEF Served, Alone, Busy, Collected
<1> HIDE DEF c, n
<1>5. CASE c \in left /\ hello' = Nobody /\ UNCHANGED view
  <2>1. hello'.conn = NoConn /\ hello'.sent = 0 /\ Nobody \in [conn : Clients \cup {NoConn}, sent : 0 .. 3, due : {0, 2, 3}]
    BY <1>5 DEF Nobody
  <2>2. Shapes'
    BY <1>1, <1>5, <2>1 DEF Served, Shapes
  <2>3. Joined'
    BY <1>1, <1>3, <1>5, <2>1 DEF Served, Joined
  <2>4. InStep'
    BY <1>1, <1>5 DEF Served, InStep, Behind, Lags
  <2>5. Kept'
    BY <1>1, <1>5 DEF Served, Kept, c
  <2> QED BY <1>1, <1>4, <2>2, <2>3, <2>4, <2>5 DEF Served
<1>6. CASE /\ view' = IF c \in left THEN view ELSE [view EXCEPT ![c] = Shown(c, n)]
           /\ hello' = [hello EXCEPT !.sent = @ + 1]
  <2>1. /\ hello'.conn = c /\ hello'.sent = n /\ hello'.due = hello.due
        /\ n \in 1 .. 3 /\ n <= hello.due
        /\ hello' \in [conn : Clients \cup {NoConn}, sent : 0 .. 3, due : {0, 2, 3}]
    <3>1. hello' = [conn |-> c, sent |-> n, due |-> hello.due]
      BY <1>2, <1>6 DEF n
    <3>2. n \in 1 .. 3 /\ n <= hello.due
      BY <1>1, <1>2 DEF n
    <3> QED BY <1>2, <3>1, <3>2
  <2>2. /\ DOMAIN view' = Clients /\ \A d \in Clients : d # c => view'[d] = view[d]
        /\ c \notin left => view'[c] = Shown(c, n)
        /\ c \in left => view' = view
    BY <1>2, <1>6
  <2>3. n = 2 => Shown(c, n) = NewRender
    BY DEF Shown
  <2>4. n = 3 => Shown(c, n) = previous
    BY DEF Shown, FullRender
  <2>5. n >= 2 => view'[c] # <<>> \/ c \in left
    <3>1. DOMAIN NewRender = Idxs /\ DOMAIN previous = Idxs
      BY DEF NewRender, Served, Shapes
    <3>2. n >= 2 => n = 2 \/ n = 3
      BY <2>1
    <3> QED BY <2>2, <2>3, <2>4, <3>1, <3>2, PicturesAreThere
  <2>6. Shapes'
    BY <1>1, <2>1, <2>2 DEF Served, Shapes
  <2>7. Joined'
    <3>1. \A k \in DOMAIN sockets : /\ sockets[k] # c
                                    /\ view'[sockets[k]] # <<>> \/ sockets[k] \in left
      BY <1>3, <2>2 DEF Served, Joined
    <3>2. hello'.conn \in Clients /\ hello'.sent <= hello'.due /\ hello'.due # 0
      BY <1>2, <2>1
    <3>3. hello'.sent >= 2 => view'[hello'.conn] # <<>> \/ hello'.conn \in left
      BY <2>1, <2>5
    <3> QED BY <1>1, <2>1, <3>1, <3>2, <3>3 DEF Served, Joined
  <2>8. InStep'
    <3>1. ASSUME NEW k \in DOMAIN sockets, sockets[k] \notin left \cup gap
          PROVE  /\ \A h \in Goroutines : Behind(h, k)' => Merged(view'[sockets[k]], out[h]) = previous
                 /\ (\A h \in Goroutines : ~Behind(h, k)') => view'[sockets[k]] = previous
      <4>1. view'[sockets[k]] = view[sockets[k]]
        BY <1>3, <2>2
      <4>2. \A h \in Goroutines : Behind(h, k)' <=> Behind(h, k)
        BY <1>1 DEF Behind
      <4> QED BY <3>1, <4>1, <4>2 DEF Served, InStep, Lags
    <3>2. \A h \in Goroutines : pc[h] \in {"send", "sending"} => Merged(previous, out[h]) = previous
      BY DEF Served, InStep
    <3>3. c \notin left => /\ n = 2 => view'[c] = NewRender
                           /\ n = 3 => view'[c] = previous
      BY <2>2, <2>3, <2>4
    <3> QED BY <1>1, <2>1, <3>1, <3>2, <3>3 DEF InStep, Lags
  <2>9. Kept'
    BY <1>1, <2>1, <2>2 DEF Served, Kept, c
  <2> QED BY <1>1, <1>4, <2>6, <2>7, <2>8, <2>9 DEF Served
<1> QED BY <1>1, <1>5, <1>6 DEF c, n

\* A connection that has been welcomed becomes a socket.
LEMMA JoinServes == ASSUME Served, Join PROVE Served'
<1> DEFINE c == hello.conn
           last == Len(sockets) + 1
<1>1. /\ hello # Nobody /\ hello.sent = hello.due /\ sockets' = Append(sockets, c)
      /\ hello' = Nobody
      /\ \A h \in Goroutines : pc[h] # "sending"
      /\ gap' = IF hello.sent = 2 /\ previous # NewRender THEN gap \cup ({c} \ left) ELSE gap
      /\ UNCHANGED <<pc, previous, out, nth, removals, welcomes, view, left, crash>>
  BY DEF Join, Unread, screen, send, ends
<1>2. /\ c \in Clients /\ hello.sent \in {2, 3} /\ sockets \in Seq(Clients)
      /\ Len(sockets) \in Nat /\ DOMAIN sockets = 1 .. Len(sockets)
  BY <1>1, LenProperties DEF Served, Shapes, Joined
<1> HIDE DEF c
<1>3. /\ sockets' \in Seq(Clients) /\ DOMAIN sockets' = 1 .. last
      /\ \A i \in DOMAIN sockets : sockets'[i] = sockets[i]
      /\ sockets'[last] = c
      /\ \A i \in DOMAIN sockets' : i \in DOMAIN sockets \/ i = last
  <2>1. /\ Append(sockets, c) \in Seq(Clients) /\ Len(Append(sockets, c)) = last
        /\ \A i \in 1 .. Len(sockets) : Append(sockets, c)[i] = sockets[i]
        /\ Append(sockets, c)[last] = c
    BY <1>2, AppendProperties
  <2>2. DOMAIN Append(sockets, c) = 1 .. last
    BY <2>1, LenProperties
  <2> QED BY <1>1, <1>2, <2>1, <2>2
<1>4. hello'.conn = NoConn /\ hello'.sent = 0 /\ Nobody \in [conn : Clients \cup {NoConn}, sent : 0 .. 3, due : {0, 2, 3}]
  BY <1>1 DEF Nobody
<1>5. Alone' /\ Shapes'
  BY <1>1, <1>3, <1>4 DEF Served, Alone, Busy, Shapes
<1>6. Joined'
  <2>1. \A i \in DOMAIN sockets : sockets[i] # c /\ (view[sockets[i]] # <<>> \/ sockets[i] \in left)
    BY DEF Served, Joined, c
  <2>2. view[c] # <<>> \/ c \in left
    BY <1>2 DEF Served, Joined, c
  <2>3. \A i \in DOMAIN sockets' : sockets'[i] \in Clients
    BY <1>3, LenProperties, ElementOfSeq
  <2>4. \A i \in DOMAIN sockets' : /\ sockets'[i] # NoConn
                                   /\ view[sockets'[i]] # <<>> \/ sockets'[i] \in left
    BY <1>3, <2>1, <2>2, <2>3 DEF NoConn, Clients
  <2>5. \A i, j \in DOMAIN sockets' : sockets'[i] = sockets'[j] => i = j
    BY <1>3, <2>1 DEF Served, Joined
  <2> QED BY <1>1, <1>4, <2>4, <2>5 DEF Joined
<1>7. Collected'
  <2>1. \A i \in DOMAIN sockets : i \in DOMAIN sockets' /\ sockets'[i] = sockets[i]
    BY <1>2, <1>3
  <2> QED BY <1>1, <2>1 DEF Served, Collected
<1>8. InStep'
  <2>1. gap \subseteq gap'
    BY <1>1
  <2>2. \A h \in Goroutines : \A k : Behind(h, k)' <=> Behind(h, k)
    BY <1>1 DEF Behind
  <2>3. \A h \in Goroutines : Behind(h, last) <=> pc[h] = "send"
    BY <1>1, <1>2 DEF Served, Collected, Behind
  <2>4. \A h \in Goroutines : pc[h] \in {"send", "sending"} => Merged(previous, out[h]) = previous
    BY DEF Served, InStep
  <2>5. ASSUME c \notin left \cup gap'
        PROVE  /\ \A h \in Goroutines : pc[h] = "send" => Merged(view[c], out[h]) = previous
               /\ (\A h \in Goroutines : pc[h] # "send") => view[c] = previous
    <3>1. CASE hello.sent = 3
      BY <1>1, <2>1, <2>5, <3>1 DEF Served, InStep, Lags, c
    <3>2. CASE hello.sent = 2
      <4>1. view[c] = NewRender
        BY <1>1, <2>1, <2>5, <3>2 DEF Served, InStep, c
      <4>2. previous = NewRender
        BY <1>1, <2>5, <3>2
      <4> QED BY <2>4, <4>1, <4>2
    <3> QED BY <1>2, <3>1, <3>2
  <2>6. ASSUME NEW k \in DOMAIN sockets', sockets'[k] \notin left \cup gap'
        PROVE  /\ \A h \in Goroutines : Behind(h, k)' => Merged(view[sockets'[k]], out[h]) = previous
               /\ (\A h \in Goroutines : ~Behind(h, k)') => view[sockets'[k]] = previous
    <3>1. CASE k \in DOMAIN sockets
      <4>1. sockets'[k] = sockets[k] /\ sockets[k] \notin left \cup gap
        BY <1>3, <2>1, <2>6, <3>1
      <4> QED BY <2>2, <3>1, <4>1 DEF Served, InStep, Lags
    <3>2. CASE k = last
      BY <1>3, <2>2, <2>3, <2>5, <2>6, <3>2
    <3> QED BY <1>3, <3>1, <3>2
  <2> QED BY <1>1, <2>4, <2>6 DEF InStep, Lags
<1>9. Kept'
  <2> SUFFICES ASSUME NEW d \in Clients, view[d] # <<>>, d \notin left
               PROVE  \E i \in DOMAIN sockets' : sockets'[i] = d
    BY <1>1 DEF Kept
  <2>1. CASE d = c
    BY <1>2, <1>3, <2>1
  <2>2. CASE d # c
    <3>1. PICK i \in DOMAIN sockets : sockets[i] = d
      BY <2>2 DEF Served, Kept, c
    <3> QED BY <1>2, <1>3, <3>1
  <2> QED BY <2>1, <2>2
<1> QED BY <1>1, <1>5, <1>6, <1>7, <1>8, <1>9 DEF Served

\* A client closes its end.
LEMMA LeaveServes == ASSUME Served, NEW c \in Clients, Leave(c) PROVE Served'
<1>1. /\ left' = left \cup {c} /\ view' = [view EXCEPT ![c] = <<>>] /\ gap' = gap \ {c}
      /\ UNCHANGED <<pc, previous, out, nth, removals, sockets, welcomes, hello, crash>>
  BY DEF Leave, screen, send
<1>2. /\ DOMAIN view' = Clients /\ \A d \in Clients : d # c => view'[d] = view[d]
      /\ \A d : d \notin left' \cup gap' => d # c /\ d \notin left \cup gap
  BY <1>1 DEF Served, Shapes
<1>3. \A k \in DOMAIN sockets : sockets[k] \in Clients
  BY LenProperties, ElementOfSeq DEF Served, Shapes
<1>4. Alone' /\ Shapes'
  BY <1>1, <1>2 DEF Served, Alone, Busy, Shapes
<1>5. Collected'
  BY <1>1 DEF Served, Collected
<1>6. Joined'
  <2>1. \A d \in Clients : view[d] # <<>> \/ d \in left => view'[d] # <<>> \/ d \in left'
    BY <1>1, <1>2
  <2>2. hello.sent >= 2 => hello.conn \in Clients
    BY DEF Served, Joined, Nobody
  <2> QED BY <1>1, <1>3, <2>1, <2>2 DEF Served, Joined
<1>7. InStep'
  <2>1. ASSUME NEW k \in DOMAIN sockets, sockets[k] \notin left' \cup gap'
        PROVE  /\ \A h \in Goroutines : Behind(h, k)' => Merged(view'[sockets[k]], out[h]) = previous
               /\ (\A h \in Goroutines : ~Behind(h, k)') => view'[sockets[k]] = previous
    <3>1. view'[sockets[k]] = view[sockets[k]] /\ sockets[k] \notin left \cup gap
      BY <1>2, <1>3, <2>1
    <3>2. \A h \in Goroutines : Behind(h, k)' <=> Behind(h, k)
      BY <1>1 DEF Behind
    <3> QED BY <3>1, <3>2 DEF Served, InStep, Lags
  <2>2. hello # Nobody /\ hello.conn \notin left' \cup gap' =>
          /\ hello.sent = 2 => view'[hello.conn] = NewRender
          /\ hello.sent = 3 =>
               /\ \A h \in Goroutines : pc[h] = "send" => Merged(view'[hello.conn], out[h]) = previous
               /\ (\A h \in Goroutines : pc[h] # "send") => view'[hello.conn] = previous
    <3> SUFFICES ASSUME hello # Nobody, hello.conn \notin left' \cup gap'
                 PROVE  /\ hello.sent = 2 => view'[hello.conn] = NewRender
                        /\ hello.sent = 3 =>
                             /\ \A h \in Goroutines : pc[h] = "send" => Merged(view'[hello.conn], out[h]) = previous
                             /\ (\A h \in Goroutines : pc[h] # "send") => view'[hello.conn] = previous
      OBVIOUS
    <3>1. hello.conn \in Clients
      BY DEF Served, Joined
    <3>2. view'[hello.conn] = view[hello.conn] /\ hello.conn \notin left \cup gap
      BY <1>2, <3>1
    <3> QED BY <3>2 DEF Served, InStep, Lags
  <2>3. \A h \in Goroutines : pc[h] \in {"send", "sending"} => Merged(previous, out[h]) = previous
    BY DEF Served, InStep
  <2> QED BY <1>1, <2>1, <2>2, <2>3 DEF InStep, Lags
<1>8. Kept'
  <2>1. \A d \in Clients : view'[d] # <<>> /\ d \notin left' => view[d] # <<>> /\ d \notin left
    BY <1>1, <1>2
  <2> QED BY <1>1, <2>1 DEF Served, Kept
<1> QED BY <1>1, <1>4, <1>5, <1>6, <1>7, <1>8 DEF Served

\* A client stops reading, or reads again.
LEMMA StallServes == ASSUME Served, NEW c \in Clients, Stall(c) \/ Resume(c) PROVE Served'
<1>1. UNCHANGED Kernel /\ UNCHANGED welcomes /\ UNCHANGED pc
  BY DEF Stall, Resume, Kernel, screen, send, history
<1>2. Alone'
  BY <1>1 DEF Served, Alone, Busy
<1> QED BY <1>1, <1>2, StillServed DEF Served, Shapes
-----------------------------------------------------------------------------
\* Every step serves those who are there, as long as nothing has overlapped.
LEMMA NextServes == ServedAlone /\ [Next]_vars => ServedAlone'
<1> SUFFICES ASSUME ServedAlone, [Next]_vars, ~overlap' PROVE Served'
  BY DEF ServedAlone
<1>1. overlap => overlap'
  <2>1. CASE UNCHANGED vars
    BY <2>1 DEF vars, history
  <2>2. CASE Shows \/ WelcomeMessage
    BY <2>2 DEF Shows, Still, WelcomeMessage, history
  <2>3. CASE Start
    BY <2>3 DEF Start, Accept, Welcome, Join, history
  <2>4. CASE \E g \in Goroutines : Render(g) \/ Send(g)
    BY <2>4 DEF Render, Place, Compare, Send, RLock, Write, RUnlock, RemoveSockets, history
  <2>5. CASE \E c \in Clients : Leave(c) \/ Stall(c) \/ Resume(c)
    BY <2>5 DEF Leave, Stall, Resume, history
  <2> QED BY <2>1, <2>2, <2>3, <2>4, <2>5 DEF Next
<1>2. Served
  BY <1>1 DEF ServedAlone
<1>3. CASE UNCHANGED vars
  <2>1. UNCHANGED Kernel /\ UNCHANGED welcomes /\ UNCHANGED pc
    BY <1>3 DEF vars, Kernel, screen, send, ends, history
  <2>2. Alone'
    BY <1>2, <2>1 DEF Served, Alone, Busy
  <2> QED BY <1>2, <2>1, <2>2, StillServed DEF Served, Shapes
<1>4. CASE Shows
  BY <1>2, <1>4, MainServes
<1>5. CASE WelcomeMessage
  BY <1>2, <1>5, WelcomeMessageServes
<1>6. CASE Start
  BY <1>2, <1>6, AcceptServes, WelcomeServes, JoinServes DEF Start
<1>7. ASSUME NEW g \in Goroutines, Render(g) PROVE Served'
  BY <1>2, <1>7, PlaceServes, CompareServes DEF Render
<1>8. ASSUME NEW g \in Goroutines, Send(g) PROVE Served'
  BY <1>2, <1>8, RLockServes, WriteServes, RUnlockServes, RemoveSocketsServes DEF Send
<1>9. ASSUME NEW c \in Clients, Leave(c) \/ Stall(c) \/ Resume(c) PROVE Served'
  BY <1>2, <1>9, LeaveServes, StallServes
<1> QED BY <1>3, <1>4, <1>5, <1>6, <1>7, <1>8, <1>9 DEF Next

\* The first inductive invariant is one of every behaviour.
LEMMA AlwaysServed == Spec => []ServedAlone
<1>1. Init => ServedAlone
  BY StartsServed DEF ServedAlone
<1> QED BY <1>1, NextServes, PTL DEF Spec

\* Whoever is served shows what was shown.
LEMMA ServedShows == ServedAlone => ClientsServed
<1> SUFFICES ASSUME ServedAlone PROVE ClientsInStep /\ OnlyLeaversDropped
  BY DEF ClientsServed
<1>1. ToSet(sockets) = {sockets[i] : i \in DOMAIN sockets}
  BY DEF ToSet
<1>2. OnlyLeaversDropped
  BY <1>1 DEF OnlyLeaversDropped, ServedAlone, Served, Kept
<1>3. ASSUME \A g \in Goroutines : Quiet(g), NEW c \in Clients, Sure(c)
      PROVE  view[c] = previous
  <2>1. PICK k \in DOMAIN sockets : sockets[k] = c
    BY <1>1, <1>3 DEF Sure
  <2>2. c \notin left \cup gap /\ Served
    BY <1>3 DEF Sure, ServedAlone
  <2>3. \A g \in Goroutines : ~Behind(g, k)
    BY <1>3 DEF Quiet, Behind
  <2> QED BY <2>1, <2>2, <2>3 DEF Served, InStep
<1>4. ClientsInStep
  BY <1>3 DEF ClientsInStep
<1> QED BY <1>2, <1>4

\* As long as the two goroutines have not rendered or sent at the same time, for any window and
\* any number of clients: the process does not end, whoever is there stays among the sockets,
\* and shows what the renderer takes for shown whenever no change is on its way.
THEOREM ClientsAlwaysServed == Spec => []ClientsServed
BY AlwaysServed, ServedShows, PTL
-----------------------------------------------------------------------------
(* The heights of things, and drawing them *)

\* The greatest element of a set of integers is what CHOOSE finds.
LEMMA MaxIs ==
    ASSUME NEW S \in SUBSET Int, NEW m \in S, \A y \in S : m >= y
    PROVE  Max(S) = m
<1>1. Max(S) \in S /\ Max(S) >= m
  BY DEF Max
<1>2. m >= Max(S) /\ m \in Int /\ Max(S) \in Int
  BY <1>1
<1> QED BY <1>1, <1>2

\* A non-empty set of numbers up to k has a greatest one.
LEMMA GreatestOf ==
    ASSUME NEW k \in {1, 2, 3}, NEW s \in SUBSET (1 .. k), s # {}
    PROVE  Max(s) \in s /\ s \ {Max(s)} \in SUBSET (1 .. k - 1)
<1>0. \A x \in s : x \in {1, 2, 3}
  OBVIOUS
<1>1. \E x \in s : \A y \in s : x >= y
  <2>1. CASE 3 \in s
    BY <1>0, <2>1
  <2>2. CASE 3 \notin s /\ 2 \in s
    BY <1>0, <2>2
  <2>3. CASE 3 \notin s /\ 2 \notin s
    <3>1. \A y \in s : y = 1
      BY <1>0, <2>3
    <3>2. 1 \in s
      BY <3>1
    <3> QED BY <3>1, <3>2
  <2> QED BY <2>1, <2>2, <2>3
<1>2. Max(s) \in s /\ \A y \in s : Max(s) >= y
  BY <1>1 DEF Max
<1>3. \A x \in s : x \in 1 .. k /\ x \in Int
  OBVIOUS
<1>4. ASSUME NEW x \in s, x # Max(s) PROVE x \in 1 .. k - 1
  <2>1. x <= Max(s) /\ x \in 1 .. k /\ Max(s) \in 1 .. k
    BY <1>2, <1>3
  <2> HIDE <1>2
  <2> QED BY <1>4, <2>1
<1> QED BY <1>2, <1>4

\* Three things are drawn one after the other.
LEMMA PlacedInTurn ==
    ASSUME NEW b, NEW things, DOMAIN things = 1 .. 3
    PROVE  Placed(b, things) = place(place(place(b, things[1]), things[2]), things[3])
<1> DEFINE D == 1 .. 3
           u(s) == s \ {Max(s)}
           Turn(f, s) == IF s = {} THEN b ELSE place(f, things[Max(s)])
           W1(s) == Turn(b, s)
           W2(s) == Turn(W1(u(s)), s)
           W3(s) == Turn(W2(u(s)), s)
           F(f) == [s \in SUBSET D |-> IF s = {} THEN b ELSE place(f[s \ {Max(s)}], things[Max(s)])]
           iter == CHOOSE f : f = F(f)
           g == [s \in SUBSET D |-> W3(s)]
<1>1. Placed(b, things) = iter[D]
  BY Zenon DEF Placed, FoldLeft, MapThenFoldSet
<1>2. \A s \in SUBSET D : u(u(u(s))) = {}
  <2> TAKE s \in SUBSET D
  <2>1. u(s) \in SUBSET (1 .. 2)
    BY GreatestOf
  <2>2. u(u(s)) \in SUBSET (1 .. 1)
    BY <2>1, GreatestOf
  <2>3. u(u(u(s))) \in SUBSET (1 .. 0)
    BY <2>2, GreatestOf
  <2> QED BY <2>3
<1>3. \A s \in SUBSET D : u(s) \in SUBSET D
  OBVIOUS
<1> HIDE DEF u
<1>4. g = F(g)
  <2> SUFFICES ASSUME NEW s \in SUBSET D, s # {} PROVE W3(s) = place(W3(u(s)), things[Max(s)])
    BY <1>3 DEF u
  <2>1. W3(s) = place(W2(u(s)), things[Max(s)])
    OBVIOUS
  <2>2. u(u(s)) = {} \/ u(u(u(s))) = {}
    BY <1>2
  <2>3. W2(u(s)) = W3(u(s))
    BY <1>2
  <2> QED BY <2>1, <2>3
<1>5. iter = F(iter)
  <2> HIDE DEF F, g
  <2> QED BY <1>4
<1>6. \A s \in SUBSET D : iter[s] = IF s = {} THEN b ELSE place(iter[u(s)], things[Max(s)])
  BY <1>5 DEF u
<1> HIDE DEF iter, D
<1>7. /\ Max({1, 2, 3}) = 3 /\ u({1, 2, 3}) = {1, 2} /\ Max({1, 2}) = 2 /\ u({1, 2}) = {1}
      /\ Max({1}) = 1 /\ u({1}) = {}
  <2>1. Max({1, 2, 3}) = 3
    BY MaxIs
  <2>2. Max({1, 2}) = 2
    BY MaxIs
  <2>3. Max({1}) = 1
    BY MaxIs
  <2> QED BY <2>1, <2>2, <2>3 DEF u
<1>8. /\ {1, 2, 3} \in SUBSET D /\ {1, 2} \in SUBSET D /\ {1} \in SUBSET D /\ {} \in SUBSET D
      /\ D = {1, 2, 3}
  BY DEF D
<1>9. iter[{1}] = place(b, things[1])
  BY <1>6, <1>7, <1>8
<1>10. iter[{1, 2}] = place(iter[{1}], things[2])
  BY <1>6, <1>7, <1>8
<1>11. iter[D] = place(iter[{1, 2}], things[3])
  BY <1>6, <1>7, <1>8
<1> QED BY <1>1, <1>9, <1>10, <1>11

\* The binary search finds the place of a height that is not there yet, in a list of up to two.
LEMMA SpotFound ==
    ASSUME NEW S, NEW n \in 0 .. 2, S = [k \in 1 .. n |-> S[k]], Len(S) = n,
           \A k \in 1 .. n : S[k] \in Int, NEW z \in Int
    PROVE  Spot(S, z) = IF n = 0 THEN 0
                        ELSE IF n = 1 THEN IF S[1] < z THEN 1 ELSE 0
                        ELSE IF S[2] = z THEN 1 ELSE IF S[2] < z THEN 2
                        ELSE IF S[1] < z THEN 1 ELSE 0
<1> DEFINE N == 0 .. n
           mid(r) == r[1] + (r[2] - r[1]) \div 2
           Turn(f, r) == IF r[1] >= r[2] THEN r[1]
                         ELSE CASE S[mid(r) + 1] = z -> mid(r)
                                [] S[mid(r) + 1] < z -> f[<<mid(r) + 1, r[2]>>]
                                [] OTHER -> f[<<r[1], mid(r)>>]
           F(f) == [r \in N \X N |-> Turn(f, r)]
           search == CHOOSE f : f = F(f)
           f1 == F([r \in N \X N |-> 0])
           Agree(f, h, k) == \A r \in N \X N : r[2] - r[1] <= k => f[r] = h[r]
<1>1. Spot(S, z) = search[<<0, n>>]
  <2> DEFINE K == 0 .. Len(S)
  <2>1. Spot(S, z) = (CHOOSE f : f = [r \in K \X K |-> Turn(f, r)])[<<0, Len(S)>>]
    BY Zenon DEF Spot
  <2> QED BY <2>1
<1>2. ASSUME NEW r \in N \X N, r[1] < r[2]
      PROVE  /\ mid(r) \in N /\ mid(r) + 1 \in N /\ mid(r) >= r[1] /\ mid(r) < r[2]
             /\ r[1] \in N /\ r[2] \in N
  <2>1. r[1] \in N /\ r[2] \in N
    OBVIOUS
  <2>2. \A a, c \in 0 .. 2 : a < c => a <= a + (c - a) \div 2 /\ a + (c - a) \div 2 < c
    <3>1. \A k \in 1 .. 2 : 0 <= k \div 2 /\ k \div 2 < k
      OBVIOUS
    <3>2. TAKE a, c \in 0 .. 2
    <3>3. HAVE a < c
    <3>4. c - a \in 1 .. 2
      BY <3>3
    <3>5. 0 <= (c - a) \div 2 /\ (c - a) \div 2 < c - a /\ (c - a) \div 2 \in Int
      BY <3>1, <3>4
    <3> QED BY <3>5
  <2> QED BY <1>2, <2>1, <2>2
<1> HIDE DEF mid
<1>3. ASSUME NEW f, NEW h, NEW k \in -1 .. 1, Agree(f, h, k) PROVE Agree(F(f), F(h), k + 1)
  <2> SUFFICES ASSUME NEW r \in N \X N, r[2] - r[1] <= k + 1 PROVE Turn(f, r) = Turn(h, r)
    <3> HIDE DEF Turn
    <3> QED OBVIOUS
  <2>1. CASE r[1] >= r[2]
    BY <2>1
  <2>2. CASE ~(r[1] >= r[2])
    <3>0. r[1] \in Int /\ r[2] \in Int
      OBVIOUS
    <3>1. /\ mid(r) \in N /\ mid(r) + 1 \in N /\ mid(r) >= r[1] /\ mid(r) < r[2]
          /\ r[1] \in N /\ r[2] \in N
      BY <1>2, <2>2, <3>0
    <3>2. <<mid(r) + 1, r[2]>> \in N \X N /\ r[2] - (mid(r) + 1) <= k
      BY <3>1
    <3>3. <<r[1], mid(r)>> \in N \X N /\ mid(r) - r[1] <= k
      BY <3>1
    <3>4. f[<<mid(r) + 1, r[2]>>] = h[<<mid(r) + 1, r[2]>>] /\ f[<<r[1], mid(r)>>] = h[<<r[1], mid(r)>>]
      BY <1>3, <3>2, <3>3
    <3> QED BY <2>2, <3>4
  <2> QED BY <2>1, <2>2
<1>4. Agree(F(F(F(f1))), F(F(f1)), 2)
  <2>1. Agree(F(f1), f1, 0)
    <3> SUFFICES ASSUME NEW r \in N \X N, r[2] - r[1] <= 0 PROVE r[1] >= r[2]
      OBVIOUS
    <3>1. r[1] \in Int /\ r[2] \in Int
      OBVIOUS
    <3> QED BY <3>1
  <2> HIDE DEF Agree, F, f1
  <2>2. Agree(F(F(f1)), F(f1), 1)
    BY <1>3, <2>1
  <2> QED BY <1>3, <2>2
<1>5. \A r \in N \X N : r[2] - r[1] <= 2 /\ r[1] \in N /\ r[2] \in N
  OBVIOUS
<1> DEFINE g == F(F(f1))
<1>6. g = F(g)
  <2>1. \A r \in N \X N : F(g)[r] = g[r]
    <3> HIDE DEF F, f1
    <3> QED BY <1>4, <1>5
  <2>0. \A f : F(f) = [r \in N \X N |-> F(f)[r]]
    <3> HIDE DEF Turn
    <3> QED OBVIOUS
  <2>2. F(g) = [r \in N \X N |-> F(g)[r]]
    <3> HIDE DEF F, g
    <3> QED BY <2>0
  <2>3. g = [r \in N \X N |-> g[r]]
    <3> HIDE DEF F
    <3> QED BY <2>0
  <2> HIDE DEF g, F
  <2> QED BY <2>1, <2>2, <2>3
<1>7. search = F(search)
  <2> HIDE DEF F, g
  <2> QED BY <1>6
<1> HIDE DEF search
<1>8. \A r \in N \X N : search[r] = Turn(search, r)
  BY <1>7
<1>9. \A a, c \in N : /\ a >= c => search[<<a, c>>] = a
                      /\ a < c /\ S[mid(<<a, c>>) + 1] = z => search[<<a, c>>] = mid(<<a, c>>)
                      /\ a < c /\ S[mid(<<a, c>>) + 1] < z => search[<<a, c>>] = search[<<mid(<<a, c>>) + 1, c>>]
                      /\ a < c /\ S[mid(<<a, c>>) + 1] # z /\ ~(S[mid(<<a, c>>) + 1] < z)
                           => search[<<a, c>>] = search[<<a, mid(<<a, c>>)>>]
  <2> TAKE a, c \in N
  <2> DEFINE r == <<a, c>>
  <2>1. r \in N \X N /\ r[1] = a /\ r[2] = c
    OBVIOUS
  <2>2. search[r] = Turn(search, r)
    BY <1>8, <2>1
  <2>3. a < c <=> ~(a >= c)
    OBVIOUS
  <2>4. a < c => mid(r) \in 0 .. n - 1
    BY <1>2, <2>1
  <2>5. a < c => S[mid(r) + 1] \in Int
    BY <2>4
  <2> HIDE DEF N
  <2> QED BY <2>1, <2>2, <2>3, <2>5
<1>10. mid(<<0, 1>>) = 0 /\ mid(<<0, 2>>) = 1
  BY DEF mid
<1>11. ASSUME NEW a \in N PROVE search[<<a, a>>] = a
  <2>1. a \in Int /\ a >= a
    OBVIOUS
  <2> HIDE DEF N
  <2> QED BY <1>9, <2>1
<1>12. ASSUME NEW a \in N, NEW c \in N, a < c, NEW m, mid(<<a, c>>) = m, NEW k, m + 1 = k
       PROVE  /\ S[k] = z => search[<<a, c>>] = m
              /\ S[k] < z => search[<<a, c>>] = search[<<k, c>>]
              /\ S[k] # z /\ ~(S[k] < z) => search[<<a, c>>] = search[<<a, m>>]
  <2> HIDE DEF N
  <2> QED BY <1>9, <1>12
<1> HIDE DEF mid, Turn, F, g, f1, Agree, search
<1>13. S[1] = z \/ S[1] < z \/ (S[1] # z /\ ~(S[1] < z))
  OBVIOUS
<1>14. ASSUME n \in {1, 2} PROVE search[<<0, 1>>] = IF S[1] < z THEN 1 ELSE 0
  <2>1. S[1] \in Int /\ 0 \in N /\ 1 \in N /\ 0 < 1 /\ 0 + 1 = 1
    BY <1>14
  <2>2. /\ S[1] = z => search[<<0, 1>>] = 0
        /\ S[1] < z => search[<<0, 1>>] = search[<<1, 1>>]
        /\ S[1] # z /\ ~(S[1] < z) => search[<<0, 1>>] = search[<<0, 0>>]
    <3> HIDE DEF N
    <3> QED BY <1>12, <1>10, <2>1
  <2>3. search[<<0, 0>>] = 0 /\ search[<<1, 1>>] = 1
    BY <1>11, <2>1
  <2>4. S[1] = z => ~(S[1] < z)
    BY <2>1
  <2> QED BY <2>2, <2>3, <2>4, <1>13
<1> QED
  <2>1. CASE n = 0
    <3>1. 0 \in N
      BY <2>1
    <3> QED BY <1>1, <1>11, <2>1, <3>1
  <2>2. CASE n = 1
    BY <1>1, <1>14, <2>2
  <2>3. CASE n = 2
    <3>1. S[2] \in Int /\ 0 \in N /\ 2 \in N /\ 0 < 2 /\ 1 + 1 = 2
      BY <2>3
    <3>2. /\ S[2] = z => search[<<0, 2>>] = 1
          /\ S[2] < z => search[<<0, 2>>] = search[<<2, 2>>]
          /\ S[2] # z /\ ~(S[2] < z) => search[<<0, 2>>] = search[<<0, 1>>]
      <4>1. mid(<<0, 2>>) = 1
        BY <1>10
      <4> HIDE DEF N
      <4>2. \A a, c \in N : a < c => \A m, k : mid(<<a, c>>) = m /\ m + 1 = k =>
              /\ S[k] = z => search[<<a, c>>] = m
              /\ S[k] < z => search[<<a, c>>] = search[<<k, c>>]
              /\ S[k] # z /\ ~(S[k] < z) => search[<<a, c>>] = search[<<a, m>>]
        BY <1>12
      <4>3. \A m, k : mid(<<0, 2>>) = m /\ m + 1 = k =>
              /\ S[k] = z => search[<<0, 2>>] = m
              /\ S[k] < z => search[<<0, 2>>] = search[<<k, 2>>]
              /\ S[k] # z /\ ~(S[k] < z) => search[<<0, 2>>] = search[<<0, m>>]
        BY <4>2, <3>1, Zenon
      <4>4. 1 + 1 = 2
        OBVIOUS
      <4> QED BY <4>3, <4>1, <4>4, Zenon
    <3>3. search[<<2, 2>>] = 2
      BY <1>11, <3>1
    <3>4. search[<<0, 1>>] = IF S[1] < z THEN 1 ELSE 0
      BY <1>14, <2>3
    <3> QED BY <1>1, <2>3, <3>2, <3>3, <3>4
  <2> QED BY <2>1, <2>2, <2>3

\* What inserting puts where.
LEMMA Inserted ==
    ASSUME NEW seq \in Seq(Int), NEW i \in 1 .. Len(seq) + 1, NEW z \in Int
    PROVE  /\ InsertAt(seq, i, z) \in Seq(Int) /\ Len(InsertAt(seq, i, z)) = Len(seq) + 1
           /\ \A j \in 1 .. i - 1 : InsertAt(seq, i, z)[j] = seq[j]
           /\ InsertAt(seq, i, z)[i] = z
           /\ \A j \in i .. Len(seq) : InsertAt(seq, i, z)[j + 1] = seq[j]
<1> DEFINE l == SubSeq(seq, 1, i - 1)
           r == SubSeq(seq, i, Len(seq))
<1>0. Len(seq) \in Nat /\ i \in Int /\ \A k \in 1 .. Len(seq) : seq[k] \in Int
  OBVIOUS
<1>1. /\ l \in Seq(Int) /\ Len(l) = i - 1
      /\ \A k \in 1 .. i - 1 : l[k] = seq[k]
  <2>1. \A k \in 1 .. i - 1 : seq[k] \in Int
    BY <1>0
  <2>2. /\ l \in Seq(Int) /\ Len(l) = IF 1 <= i - 1 THEN i - 1 - 1 + 1 ELSE 0
        /\ \A k \in 1 .. i - 1 - 1 + 1 : l[k] = seq[1 + k - 1]
    BY <2>1, <1>0, SubSeqProperties
  <2> HIDE DEF l
  <2>3. Len(l) = i - 1
    BY <1>0, <2>2
  <2>4. ASSUME NEW k \in 1 .. i - 1 PROVE l[k] = seq[k]
    <3>1. k \in 1 .. i - 1 - 1 + 1 /\ 1 + k - 1 = k
      BY <1>0
    <3> QED BY <2>2, <3>1
  <2> QED BY <2>2, <2>3, <2>4
<1>2. /\ r \in Seq(Int) /\ Len(r) = Len(seq) - i + 1
      /\ \A k \in 1 .. Len(seq) - i + 1 : r[k] = seq[i + k - 1]
  <2>1. \A k \in i .. Len(seq) : seq[k] \in Int
    BY <1>0
  <2>2. /\ r \in Seq(Int) /\ Len(r) = IF i <= Len(seq) THEN Len(seq) - i + 1 ELSE 0
        /\ \A k \in 1 .. Len(seq) - i + 1 : r[k] = seq[i + k - 1]
    BY <2>1, <1>0, SubSeqProperties
  <2> HIDE DEF r
  <2> QED BY <2>2, <1>0
<1> DEFINE lz == l \o <<z>>
<1> HIDE DEF l, r
<1>3. /\ lz \in Seq(Int) /\ Len(lz) = i
      /\ \A k \in 1 .. i : lz[k] = IF k <= i - 1 THEN seq[k] ELSE z
  <2>1. <<z>> \in Seq(Int) /\ Len(<<z>>) = 1 /\ <<z>>[1] = z
    OBVIOUS
  <2>2. /\ lz \in Seq(Int) /\ Len(lz) = Len(l) + Len(<<z>>)
        /\ \A k \in 1 .. Len(l) + Len(<<z>>) :
             lz[k] = IF k <= Len(l) THEN l[k] ELSE <<z>>[k - Len(l)]
    BY <1>1, <2>1, ConcatProperties
  <2>3. Len(lz) = i /\ Len(l) + Len(<<z>>) = i
    BY <1>0, <1>1, <2>1, <2>2
  <2>4. ASSUME NEW k \in 1 .. i PROVE lz[k] = IF k <= i - 1 THEN seq[k] ELSE z
    <3>1. CASE k <= i - 1
      <4>1. k \in 1 .. i - 1 /\ k \in 1 .. Len(l) + Len(<<z>>) /\ k <= Len(l)
        BY <3>1, <1>0, <1>1, <2>3
      <4> QED BY <1>1, <2>2, <4>1, <3>1
    <3>2. CASE ~(k <= i - 1)
      <4>1. k \in 1 .. Len(l) + Len(<<z>>) /\ ~(k <= Len(l)) /\ k - Len(l) = 1
        BY <3>2, <1>0, <1>1, <2>3
      <4> QED BY <2>1, <2>2, <4>1, <3>2
    <3> QED BY <3>1, <3>2
  <2> QED BY <2>2, <2>3, <2>4
<1>4. InsertAt(seq, i, z) = lz \o r
  BY DEF InsertAt, l, r
<1> HIDE DEF lz
<1>5. /\ lz \o r \in Seq(Int) /\ Len(lz \o r) = Len(lz) + Len(r)
      /\ \A k \in 1 .. Len(lz) + Len(r) : (lz \o r)[k] = IF k <= Len(lz) THEN lz[k] ELSE r[k - Len(lz)]
  BY <1>2, <1>3, ConcatProperties
<1>6. Len(lz) + Len(r) = Len(seq) + 1
  BY <1>0, <1>2, <1>3
<1>7. ASSUME NEW j \in 1 .. Len(seq) + 1
      PROVE  (lz \o r)[j] = IF j < i THEN seq[j] ELSE IF j = i THEN z ELSE seq[j - 1]
  <2>1. CASE j <= i
    <3>1. j \in 1 .. i /\ j \in 1 .. Len(lz) + Len(r) /\ j <= Len(lz) /\ (j <= i - 1 <=> j < i)
      BY <2>1, <1>0, <1>3, <1>6
    <3> QED BY <1>3, <1>5, <3>1, <2>1
  <2>2. CASE ~(j <= i)
    <3>1. /\ j \in 1 .. Len(lz) + Len(r) /\ ~(j <= Len(lz)) /\ j - Len(lz) \in 1 .. Len(seq) - i + 1
          /\ i + (j - Len(lz)) - 1 = j - 1 /\ ~(j < i) /\ j # i
      BY <2>2, <1>0, <1>3, <1>6
    <3> QED BY <1>2, <1>5, <3>1
  <2> QED BY <2>1, <2>2
<1>8. ASSUME NEW j \in 1 .. i - 1 PROVE (lz \o r)[j] = seq[j]
  <2>1. j \in 1 .. Len(seq) + 1 /\ j < i
    BY <1>0
  <2> QED BY <1>7, <2>1
<1>9. (lz \o r)[i] = z
  <2>1. i \in 1 .. Len(seq) + 1 /\ ~(i < i)
    BY <1>0
  <2> QED BY <1>7, <2>1
<1>10. ASSUME NEW j \in i .. Len(seq) PROVE (lz \o r)[j + 1] = seq[j]
  <2> DEFINE k == j + 1
  <2>1. k \in 1 .. Len(seq) + 1 /\ ~(k < i) /\ k # i /\ k - 1 = j
    BY <1>0
  <2> HIDE DEF k
  <2>2. (lz \o r)[k] = seq[k - 1]
    BY <1>7, <2>1
  <2> QED BY <2>1, <2>2 DEF k
<1> QED BY <1>4, <1>5, <1>6, <1>8, <1>9, <1>10

\* Inserting into a sequence of two at most.
LEMMA InsertedAt ==
    ASSUME NEW z \in Int, NEW a \in Int, NEW c \in Int
    PROVE  /\ InsertAt(<<>>, 1, z) = <<z>>
           /\ InsertAt(<<a>>, 1, z) = <<z, a>> /\ InsertAt(<<a>>, 2, z) = <<a, z>>
           /\ InsertAt(<<a, c>>, 1, z) = <<z, a, c>> /\ InsertAt(<<a, c>>, 3, z) = <<a, c, z>>
<1>0. /\ \A s \in Seq(Int) : Len(s) = 1 => s = <<s[1]>>
      /\ \A s \in Seq(Int) : Len(s) = 2 => s = <<s[1], s[2]>>
      /\ \A s \in Seq(Int) : Len(s) = 3 => s = <<s[1], s[2], s[3]>>
  OBVIOUS
<1>a. /\ <<>> \in Seq(Int) /\ Len(<<>>) = 0
      /\ <<a>> \in Seq(Int) /\ Len(<<a>>) = 1 /\ <<a>>[1] = a
      /\ <<a, c>> \in Seq(Int) /\ Len(<<a, c>>) = 2 /\ <<a, c>>[1] = a /\ <<a, c>>[2] = c
  OBVIOUS
<1>b. \A q \in Seq(Int) : \A i \in 1 .. Len(q) + 1 :
        /\ InsertAt(q, i, z) \in Seq(Int) /\ Len(InsertAt(q, i, z)) = Len(q) + 1
        /\ \A j \in 1 .. i - 1 : InsertAt(q, i, z)[j] = q[j]
        /\ InsertAt(q, i, z)[i] = z
        /\ \A j \in i .. Len(q) : InsertAt(q, i, z)[j + 1] = q[j]
  BY Inserted, Zenon
<1>1. InsertAt(<<>>, 1, z) = <<z>>
  <2> DEFINE q == <<>>
             s == InsertAt(q, 1, z)
  <2>1. q \in Seq(Int) /\ Len(q) = 0 /\ 1 \in 1 .. Len(q) + 1
    BY <1>a
  <2> HIDE DEF q
  <2>2. /\ s \in Seq(Int) /\ Len(s) = Len(q) + 1
        /\ \A j \in 1 .. 1 - 1 : s[j] = q[j]
        /\ s[1] = z
        /\ \A j \in 1 .. Len(q) : s[j + 1] = q[j]
    BY <2>1, <1>b, Zenon
  <2> HIDE DEF s
  <2>3. Len(s) = 1 /\ s[1] = z
    BY <2>1, <2>2
  <2>4. s = <<z>>
    BY <2>2, <2>3, <1>0
  <2> QED BY <2>4 DEF s, q
<1>2. InsertAt(<<a>>, 1, z) = <<z, a>>
  <2> DEFINE q == <<a>>
             s == InsertAt(q, 1, z)
  <2>1. q \in Seq(Int) /\ Len(q) = 1 /\ 1 \in 1 .. Len(q) + 1 /\ q[1] = a
    BY <1>a
  <2> HIDE DEF q
  <2>2. /\ s \in Seq(Int) /\ Len(s) = Len(q) + 1
        /\ \A j \in 1 .. 1 - 1 : s[j] = q[j]
        /\ s[1] = z
        /\ \A j \in 1 .. Len(q) : s[j + 1] = q[j]
    BY <2>1, <1>b, Zenon
  <2> HIDE DEF s
  <2>3. Len(s) = 2 /\ s[1] = z /\ s[2] = a
    BY <2>1, <2>2
  <2>4. s = <<z, a>>
    BY <2>2, <2>3, <1>0
  <2> QED BY <2>4 DEF s, q
<1>3. InsertAt(<<a>>, 2, z) = <<a, z>>
  <2> DEFINE q == <<a>>
             s == InsertAt(q, 2, z)
  <2>1. q \in Seq(Int) /\ Len(q) = 1 /\ 2 \in 1 .. Len(q) + 1 /\ q[1] = a
    BY <1>a
  <2> HIDE DEF q
  <2>2. /\ s \in Seq(Int) /\ Len(s) = Len(q) + 1
        /\ \A j \in 1 .. 2 - 1 : s[j] = q[j]
        /\ s[2] = z
        /\ \A j \in 2 .. Len(q) : s[j + 1] = q[j]
    BY <2>1, <1>b, Zenon
  <2> HIDE DEF s
  <2>3. Len(s) = 2 /\ s[1] = a /\ s[2] = z
    BY <2>1, <2>2
  <2>4. s = <<a, z>>
    BY <2>2, <2>3, <1>0
  <2> QED BY <2>4 DEF s, q
<1>4. InsertAt(<<a, c>>, 1, z) = <<z, a, c>>
  <2> DEFINE q == <<a, c>>
             s == InsertAt(q, 1, z)
  <2>1. q \in Seq(Int) /\ Len(q) = 2 /\ 1 \in 1 .. Len(q) + 1 /\ q[1] = a /\ q[2] = c
    BY <1>a
  <2> HIDE DEF q
  <2>2. /\ s \in Seq(Int) /\ Len(s) = Len(q) + 1
        /\ \A j \in 1 .. 1 - 1 : s[j] = q[j]
        /\ s[1] = z
        /\ \A j \in 1 .. Len(q) : s[j + 1] = q[j]
    BY <2>1, <1>b, Zenon
  <2> HIDE DEF s
  <2>3. Len(s) = 3 /\ s[1] = z /\ s[2] = a /\ s[3] = c
    BY <2>1, <2>2
  <2>4. s = <<z, a, c>>
    BY <2>2, <2>3, <1>0
  <2> QED BY <2>4 DEF s, q
<1>5. InsertAt(<<a, c>>, 3, z) = <<a, c, z>>
  <2> DEFINE q == <<a, c>>
             s == InsertAt(q, 3, z)
  <2>1. q \in Seq(Int) /\ Len(q) = 2 /\ 3 \in 1 .. Len(q) + 1 /\ q[1] = a /\ q[2] = c
    BY <1>a
  <2> HIDE DEF q
  <2>2. /\ s \in Seq(Int) /\ Len(s) = Len(q) + 1
        /\ \A j \in 1 .. 3 - 1 : s[j] = q[j]
        /\ s[3] = z
        /\ \A j \in 3 .. Len(q) : s[j + 1] = q[j]
    BY <2>1, <1>b, Zenon
  <2> HIDE DEF s
  <2>3. Len(s) = 3 /\ s[1] = a /\ s[2] = c /\ s[3] = z
    BY <2>1, <2>2
  <2>4. s = <<a, c, z>>
    BY <2>2, <2>3, <1>0
  <2> QED BY <2>4 DEF s, q
<1> QED BY <1>1, <1>2, <1>3, <1>4, <1>5

\* The first thing, and the second.
LEMMA FirstAdded == ASSUME NEW z \in Int PROVE Add(<<>>, z) = <<z>>
<1>1. <<>> = [k \in 1 .. 0 |-> <<>>[k]] /\ Len(<<>>) = 0
  OBVIOUS
<1>2. Spot(<<>>, z) = 0
  BY <1>1, SpotFound
<1>3. 0 + 1 = 1
  OBVIOUS
<1> QED BY <1>2, <1>3, InsertedAt, Zenon DEF Add

\* Add keeps two heights in order.
LEMMA SecondAdded ==
    ASSUME NEW d \in Int, NEW e \in Int
    PROVE  Add(<<d>>, e) = IF d < e THEN <<d, e>> ELSE <<e, d>>
<1> DEFINE S == <<d>>
<1>1. S = [k \in 1 .. 1 |-> S[k]] /\ Len(S) = 1 /\ \A k \in 1 .. 1 : S[k] \in Int
  OBVIOUS
<1>2. S[1] = d
  OBVIOUS
<1> HIDE DEF S
<1>3. Spot(S, e) = IF S[1] < e THEN 1 ELSE 0
  BY <1>1, SpotFound
<1>4. 0 + 1 = 1 /\ 1 + 1 = 2
  OBVIOUS
<1>7. InsertAt(<<d>>, 1, e) = <<e, d>> /\ InsertAt(<<d>>, 2, e) = <<d, e>>
  BY InsertedAt, Zenon
<1>5. CASE d < e
  <2>1. Spot(<<d>>, e) = 1
    BY <1>2, <1>3, <1>5 DEF S
  <2>2. Add(<<d>>, e) = InsertAt(<<d>>, 1 + 1, e)
    BY <2>1, Zenon DEF Add
  <2> QED BY <1>4, <1>5, <2>2, <1>7, Zenon
<1>6. CASE ~(d < e)
  <2>1. Spot(<<d>>, e) = 0
    BY <1>2, <1>3, <1>6 DEF S
  <2>2. Add(<<d>>, e) = InsertAt(<<d>>, 0 + 1, e)
    BY <2>1, Zenon DEF Add
  <2> QED BY <1>4, <1>6, <2>2, <1>7, Zenon
<1> QED BY <1>5, <1>6

\* The third, when it is the highest or the lowest.
LEMMA ThirdAdded ==
    ASSUME NEW a \in Int, NEW c \in Int, NEW z \in Int, a < c, z < a \/ c < z
    PROVE  Add(<<a, c>>, z) = IF z < a THEN <<z, a, c>> ELSE <<a, c, z>>
<1> DEFINE S == <<a, c>>
<1>1. S = [k \in 1 .. 2 |-> S[k]] /\ Len(S) = 2 /\ \A k \in 1 .. 2 : S[k] \in Int
  OBVIOUS
<1>2. S[1] = a /\ S[2] = c
  OBVIOUS
<1> HIDE DEF S
<1>3. Spot(S, z) = IF S[2] = z THEN 1 ELSE IF S[2] < z THEN 2 ELSE IF S[1] < z THEN 1 ELSE 0
  BY <1>1, SpotFound
<1>4. 0 + 1 = 1 /\ 2 + 1 = 3
  OBVIOUS
<1>7. InsertAt(<<a, c>>, 1, z) = <<z, a, c>> /\ InsertAt(<<a, c>>, 3, z) = <<a, c, z>>
  BY InsertedAt
<1>5. CASE z < a
  <2>1. Spot(<<a, c>>, z) = 0
    BY <1>2, <1>3, <1>5 DEF S
  <2>2. Add(<<a, c>>, z) = InsertAt(<<a, c>>, 0 + 1, z)
    BY <2>1, Zenon DEF Add
  <2> QED BY <1>4, <1>5, <2>2, <1>7, Zenon
<1>6. CASE ~(z < a)
  <2>1. Spot(<<a, c>>, z) = 2
    BY <1>2, <1>3, <1>6 DEF S
  <2>2. Add(<<a, c>>, z) = InsertAt(<<a, c>>, 2 + 1, z)
    BY <2>1, Zenon DEF Add
  <2> QED BY <1>4, <1>6, <2>2, <1>7, Zenon
<1> QED BY <1>5, <1>6

\* In whatever order the three things are added.
LEMMA StartsByHeight == Init => DrawnByHeight
<1> SUFFICES ASSUME NEW order \in {<<1, 2, 100>>, <<100, 2, 1>>, <<2, 100, 1>>}
    PROVE  Add(Add(Add(<<>>, order[1]), order[2]), order[3]) = <<1, 2, 100>>
  BY DEF Init, DrawnByHeight
<1>0. /\ 1 \in Int /\ 2 \in Int /\ 100 \in Int
      /\ 1 < 2 /\ 2 < 100 /\ ~(100 < 2) /\ ~(2 < 1) /\ ~(100 < 1)
  OBVIOUS
<1>1. Add(Add(Add(<<>>, 1), 2), 100) = <<1, 2, 100>>
  <2>1. Add(<<>>, 1) = <<1>> /\ Add(<<1>>, 2) = <<1, 2>>
    BY <1>0, FirstAdded, SecondAdded, ThirdAdded, Zenon
  <2>2. Add(<<1, 2>>, 100) = <<1, 2, 100>>
    BY <1>0, FirstAdded, SecondAdded, ThirdAdded, Zenon
  <2> QED BY <2>1, <2>2
<1>2. Add(Add(Add(<<>>, 100), 2), 1) = <<1, 2, 100>>
  <2>1. Add(<<>>, 100) = <<100>> /\ Add(<<100>>, 2) = <<2, 100>>
    BY <1>0, FirstAdded, SecondAdded, ThirdAdded, Zenon
  <2>2. Add(<<2, 100>>, 1) = <<1, 2, 100>>
    BY <1>0, FirstAdded, SecondAdded, ThirdAdded, Zenon
  <2> QED BY <2>1, <2>2
<1>3. Add(Add(Add(<<>>, 2), 100), 1) = <<1, 2, 100>>
  <2>1. Add(<<>>, 2) = <<2>> /\ Add(<<2>>, 100) = <<2, 100>>
    BY <1>0, FirstAdded, SecondAdded, ThirdAdded, Zenon
  <2>2. Add(<<2, 100>>, 1) = <<1, 2, 100>>
    BY <1>0, FirstAdded, SecondAdded, ThirdAdded, Zenon
  <2> QED BY <2>1, <2>2
<1>4. CASE order = <<1, 2, 100>>
  BY <1>1, <1>4
<1>5. CASE order = <<100, 2, 1>>
  BY <1>2, <1>5
<1>6. CASE order = <<2, 100, 1>>
  BY <1>3, <1>6
<1> QED BY <1>4, <1>5, <1>6

\* What a thing covers, and with what.
Covers(t) == {i \in Idxs : \E o \in DOMAIN t.cells : ~exceeds(t.loc, o) /\ translate(t.loc, o) = i}
Ink(t, i) ==
    t.cells[CHOOSE o \in {o \in DOMAIN t.cells : ~exceeds(t.loc, o)} : translate(t.loc, o) = i]

\* A shown cell hides what is under it, and stays one under a background.
LEMMA ShownCells ==
    ASSUME NEW cell \in CellsShown
    PROVE  /\ ~IsEmpty(cell) /\ \A under : Merge(under, cell) = cell
           /\ [cell EXCEPT !.bg = "red"] \in CellsShown
<1>1. cell.v # "no place" /\ cell.v # "background"
  BY DEF CellsShown, Glyphs
<1>2. [cell EXCEPT !.bg = "red"] \in CellsShown
  BY DEF CellsShown
<1> QED BY <1>1, <1>2 DEF IsEmpty, Merge

\* A thing of such cells hides what it covers, and changes nothing else.
LEMMA PlacedOver ==
    ASSUME NEW t, \A o \in DOMAIN t.cells : t.cells[o] \in CellsShown, NEW b, NEW i \in Idxs
    PROVE  /\ place(b, t)[i] = IF i \in Covers(t) THEN Ink(t, i) ELSE b[i]
           /\ i \in Covers(t) => Ink(t, i) \in CellsShown
<1> DEFINE O == {o \in DOMAIN t.cells : ~exceeds(t.loc, o)}
           p == CHOOSE o \in O : translate(t.loc, o) = i
<1>1. place(b, t)[i] = IF \E o \in O : translate(t.loc, o) = i THEN Merge(b[i], t.cells[p]) ELSE b[i]
  BY DEF place
<1>2. i \in Covers(t) <=> \E o \in O : translate(t.loc, o) = i
  BY DEF Covers
<1>3. i \in Covers(t) => p \in O
  BY <1>2
<1>4. i \in Covers(t) => t.cells[p] \in CellsShown
  BY <1>3
<1>5. Ink(t, i) = t.cells[p]
  BY Zenon DEF Ink
<1> HIDE DEF p, O
<1>6. CASE i \in Covers(t)
  <2>1. Merge(b[i], t.cells[p]) = t.cells[p]
    BY <1>4, <1>6, ShownCells
  <2> QED BY <1>1, <1>2, <1>4, <1>5, <1>6, <2>1
<1>7. CASE i \notin Covers(t)
  BY <1>1, <1>2, <1>7
<1> QED BY <1>6, <1>7

\* What is placed is a picture.
LEMMA Placing == \A b, t : place(b, t) = [i \in Idxs |-> place(b, t)[i]]
BY DEF place

\* What the board and the smiley cover does not depend on the game.
BoardCovers == Covers(Board(Shut))
SmileyCovers == Covers(Smiley(Shut))

\* The board and the smiley are made of shown cells, and stay where they are.
LEMMA Drawing ==
    ASSUME NEW g
    PROVE  /\ \A o \in DOMAIN Board(g).cells : Board(g).cells[o] \in CellsShown
           /\ \A o \in DOMAIN Smiley(g).cells : Smiley(g).cells[o] \in CellsShown
           /\ Covers(Board(g)) = BoardCovers /\ Covers(Smiley(g)) = SmileyCovers
<1>1. \A o \in DOMAIN Board(g).cells : Board(g).cells[o] \in CellsShown
  BY DEF Board, CellsShown, Glyphs, Glyph, Blank
<1>2. \A o \in DOMAIN Smiley(g).cells : Smiley(g).cells[o] \in CellsShown
  BY DEF Smiley, CellsShown, Glyphs, Glyph
<1>3. \A h : DOMAIN Board(h).cells = {<<0, 0>>, <<0, 1>>} /\ Board(h).loc = <<0, 0>>
  BY DEF Board
<1>4. \A h : DOMAIN Smiley(h).cells = {<<0, 0>>} /\ Smiley(h).loc = <<0, 2>>
  BY DEF Smiley
<1>5. \A h : Covers(Board(h)) = {i \in Idxs : \E o \in {<<0, 0>>, <<0, 1>>} :
                                    ~exceeds(<<0, 0>>, o) /\ translate(<<0, 0>>, o) = i}
  BY <1>3, Zenon DEF Covers
<1>6. \A h : Covers(Smiley(h)) = {i \in Idxs : \E o \in {<<0, 0>>} :
                                    ~exceeds(<<0, 2>>, o) /\ translate(<<0, 2>>, o) = i}
  BY <1>4, Zenon DEF Covers
<1>7. Covers(Board(g)) = BoardCovers
  BY <1>5, Zenon DEF BoardCovers
<1>8. Covers(Smiley(g)) = SmileyCovers
  BY <1>6, Zenon DEF SmileyCovers
<1> QED BY <1>1, <1>2, <1>7, <1>8

\* The place in the lead lies on the board and colours what is under it.
LEMMA PickDrawn ==
    ASSUME NEW g, g.pick \in {None, <<0, 0>>}, NEW b, NEW i \in Idxs
    PROVE  /\ g.pick = None => place(b, Pick(g))[i] = b[i]
           /\ \/ place(b, Pick(g))[i] = b[i]
              \/ i \in BoardCovers /\ place(b, Pick(g))[i] = [b[i] EXCEPT !.bg = "red"]
<1>1. CASE g.pick = None
  <2>1. DOMAIN Pick(g).cells = {}
    BY <1>1 DEF Pick
  <2>2. place(b, Pick(g))[i] = b[i]
    BY <2>1 DEF place
  <2> QED BY <2>2, Zenon
<1>2. CASE g.pick # None
  <2>0. g.pick = <<0, 0>> /\ g.pick # None
    BY <1>2
  <2>1. /\ DOMAIN Pick(g).cells = {<<0, 0>>} /\ Pick(g).loc = <<0, 0>>
        /\ Pick(g).cells[<<0, 0>>] = BackgroundCellOnly("red")
    BY <2>0 DEF Pick
  <2>2. CASE i \in Covers(Pick(g))
    <3>1. ~exceeds(<<0, 0>>, <<0, 0>>) /\ translate(<<0, 0>>, <<0, 0>>) = i
      BY <2>1, <2>2 DEF Covers
    <3>2. i \in BoardCovers
      <4>1. <<0, 0>> \in DOMAIN Board(Shut).cells /\ Board(Shut).loc = <<0, 0>>
        BY DEF Board
      <4> QED BY <3>1, <4>1 DEF BoardCovers, Covers
    <3>3. place(b, Pick(g))[i] = Merge(b[i], BackgroundCellOnly("red"))
      <4> DEFINE O == {o \in DOMAIN Pick(g).cells : ~exceeds(Pick(g).loc, o)}
                 p == CHOOSE o \in O : translate(Pick(g).loc, o) = i
      <4>1. O = {<<0, 0>>}
        BY <2>1, <3>1
      <4>2. \E o \in O : translate(Pick(g).loc, o) = i
        BY <2>1, <3>1, <4>1
      <4>3. p \in O
        BY <4>2
      <4>4. Pick(g).cells[p] = BackgroundCellOnly("red")
        BY <4>1, <4>3, <2>1
      <4>5. place(b, Pick(g))[i] = IF \E o \in O : translate(Pick(g).loc, o) = i
                                   THEN Merge(b[i], Pick(g).cells[p]) ELSE b[i]
        BY DEF place
      <4> HIDE DEF O, p
      <4> QED BY <4>2, <4>4, <4>5
    <3>4. Merge(b[i], BackgroundCellOnly("red")) = [b[i] EXCEPT !.bg = "red"]
      BY DEF Merge, BackgroundCellOnly, IsEmpty
    <3> QED BY <2>0, <3>2, <3>3, <3>4
  <2>3. CASE i \notin Covers(Pick(g))
    <3>1. place(b, Pick(g))[i] = b[i]
      BY <2>3 DEF Covers, place
    <3> QED BY <2>0, <3>1, Zenon
  <2> QED BY <2>2, <2>3
<1> QED BY <1>1, <1>2

\* The things, lowest first.
LEMMA ThreeThings ==
    ASSUME DrawnByHeight, NEW g
    PROVE  /\ DOMAIN Things(g) = 1 .. 3
           /\ Things(g)[1] = Smiley(g) /\ Things(g)[2] = Board(g) /\ Things(g)[3] = Pick(g)
<1>1. Board(g).z = 2 /\ Smiley(g).z = 1 /\ Pick(g).z = 100
  BY DEF Board, Smiley, Pick
<1>2. Thing(g, 1) = Smiley(g) /\ Thing(g, 2) = Board(g) /\ Thing(g, 100) = Pick(g)
  <2> HIDE <1>1
  <2> DEFINE T == {Board(g), Smiley(g), Pick(g)}
  <2>1. Smiley(g) \in T /\ \A t \in T : t.z = 1 => t = Smiley(g)
    BY <1>1
  <2>2. Board(g) \in T /\ \A t \in T : t.z = 2 => t = Board(g)
    BY <1>1
  <2>3. Pick(g) \in T /\ \A t \in T : t.z = 100 => t = Pick(g)
    BY <1>1
  <2> HIDE DEF T
  <2>4. /\ (CHOOSE t \in T : t.z = 1) = Smiley(g) /\ (CHOOSE t \in T : t.z = 2) = Board(g)
        /\ (CHOOSE t \in T : t.z = 100) = Pick(g)
    BY <1>1, <2>1, <2>2, <2>3
  <2> QED BY <2>4 DEF Thing, T
<1>3. Len(zs) = 3 /\ zs[1] = 1 /\ zs[2] = 2 /\ zs[3] = 100
  BY DEF DrawnByHeight
<1>4. DOMAIN Things(g) = 1 .. 3
  BY <1>3 DEF Things
<1>5. \A n \in 1 .. 3 : Things(g)[n] = Thing(g, zs[n])
  BY <1>3 DEF Things
<1> QED BY <1>2, <1>3, <1>4, <1>5

\* What is drawn, cell by cell.
LEMMA DrawnOver ==
    ASSUME DrawnByHeight, NEW g, g.pick \in {None, <<0, 0>>}, NEW b, NEW i \in Idxs
    PROVE  \E under : 
             /\ under = IF i \in BoardCovers THEN Ink(Board(g), i)
                        ELSE IF i \in SmileyCovers THEN Ink(Smiley(g), i) ELSE b[i]
             /\ i \in BoardCovers \cup SmileyCovers => under \in CellsShown
             /\ \/ Placed(b, Things(g))[i] = under
                \/ i \in BoardCovers /\ Placed(b, Things(g))[i] = [under EXCEPT !.bg = "red"]
             /\ g.pick = None => Placed(b, Things(g))[i] = under
<1> DEFINE p1 == place(b, Smiley(g))
           p2 == place(p1, Board(g))
           p3 == place(p2, Pick(g))
<1>1. Placed(b, Things(g)) = p3
  BY PlacedInTurn, ThreeThings
<1>2. /\ p1[i] = IF i \in SmileyCovers THEN Ink(Smiley(g), i) ELSE b[i]
      /\ i \in SmileyCovers => Ink(Smiley(g), i) \in CellsShown
  BY Drawing, PlacedOver
<1>3. /\ p2[i] = IF i \in BoardCovers THEN Ink(Board(g), i) ELSE p1[i]
      /\ i \in BoardCovers => Ink(Board(g), i) \in CellsShown
  <2> HIDE DEF p1
  <2> QED BY Drawing, PlacedOver
<1>4. /\ g.pick = None => p3[i] = p2[i]
      /\ p3[i] = p2[i] \/ (i \in BoardCovers /\ p3[i] = [p2[i] EXCEPT !.bg = "red"])
  <2> HIDE DEF p2
  <2> QED BY PickDrawn
<1> HIDE DEF p1, p2, p3
<1> WITNESS p2[i]
<1> QED BY <1>1, <1>2, <1>3, <1>4
-----------------------------------------------------------------------------
(* What is drawn, and what is seen of it *)

Games == [open : BOOLEAN, bomb : BOOLEAN, lost : BOOLEAN, pick : {None, <<0, 0>>}]

\* The picture of the game lies on nothing.
DrawnOnNothing == \E b \in {clean, NewRender} : buffer = Placed(b, Things(game))

\* What lies outside the board and the smiley is never touched, whoever renders; the buffer is
\* empty unless someone is between the two halves of Render; and once main has rendered a game
\* that is over alone, what it shows is what it rendered.
Painted ==
    /\ DrawnByHeight /\ game \in Games /\ (over => game.pick = None) /\ (game.bomb => over)
    /\ pc \in [Goroutines -> Labels] /\ pc["tick"] # "due"
    /\ previous = [i \in Idxs |-> previous[i]] /\ DOMAIN out = Goroutines
    /\ \A i \in Idxs : previous[i] \in CellsShown /\ (buffer[i] \in CellsShown \/ IsEmpty(buffer[i]))
    /\ \A i \in Idxs \ (BoardCovers \cup SmileyCovers) :
         previous[i] = Blank /\ buffer[i] \in {Blank, EmptyCell}
    /\ \A g \in Goroutines : \A i \in DOMAIN out[g] : i \in Idxs /\ out[g][i] \in CellsShown
    /\ (\A g \in Goroutines : pc[g] # "placed") => buffer \in {clean, NewRender}
    /\ ~overlap /\ over /\ game.bomb =>
         \/ pc["main"] = "due"
         \/ pc["tick"] = "idle" /\ pc["main"] = "placed" /\ DrawnOnNothing
         \/ /\ pc["tick"] = "idle" /\ pc["main"] \in {"idle", "send", "sending", "removing"}
            /\ previous = Picture(game)

\* What is shown after Render's second half.
LEMMA ShownNext ==
    ASSUME NEW b, NEW p, NEW i \in Idxs, p[i] \in CellsShown, b[i] \in CellsShown \/ IsEmpty(b[i])
    PROVE  /\ Merged(p, Changes(b, p))[i] = IF IsEmpty(b[i]) THEN p[i] ELSE b[i]
           /\ i \in DOMAIN Changes(b, p) => Changes(b, p)[i] \in CellsShown
<1> DEFINE D == {j \in Idxs : b[j] # p[j] /\ ~IsEmpty(b[j])}
<1>1. DOMAIN Changes(b, p) = D /\ \A j \in D : Changes(b, p)[j] = b[j]
  BY DEF Changes
<1>2. Merged(p, Changes(b, p))[i] = IF i \in D THEN Merge(p[i], b[i]) ELSE p[i]
  BY <1>1 DEF Merged
<1>3. b[i] \in CellsShown => ~IsEmpty(b[i]) /\ Merge(p[i], b[i]) = b[i]
  BY ShownCells
<1>4. i \in D <=> b[i] # p[i] /\ ~IsEmpty(b[i])
  OBVIOUS
<1> HIDE DEF D
<1> QED BY <1>1, <1>2, <1>3, <1>4

\* Changes are drawn cells of the buffer that are not in the picture yet.
LEMMA ChangesIn ==
    ASSUME NEW b, NEW p
    PROVE  \A i \in DOMAIN Changes(b, p) : i \in Idxs /\ b[i] # p[i] /\ ~IsEmpty(b[i])
                                           /\ Changes(b, p)[i] = b[i]
BY DEF Changes

\* The picture of a game without a lead, when nothing lies under it.
LEMMA DrawnIsPicture ==
    ASSUME DrawnByHeight, NEW g \in Games, g.pick = None, NEW b \in {clean, NewRender},
           NEW p, p = [i \in Idxs |-> p[i]], \A i \in Idxs : p[i] \in CellsShown,
           \A i \in Idxs \ (BoardCovers \cup SmileyCovers) : p[i] = Blank
    PROVE  Merged(p, Changes(Placed(b, Things(g)), p)) = Picture(g)
<1> DEFINE d == Placed(b, Things(g))
<1>1. Picture(g) = Placed(NewRender, Things(g))
  <2> DEFINE three == <<Smiley(g), Board(g), Pick(g)>>
  <2>1. DOMAIN three = 1 .. 3 /\ three[1] = Smiley(g) /\ three[2] = Board(g) /\ three[3] = Pick(g)
    OBVIOUS
  <2> HIDE DEF three
  <2>2. Placed(NewRender, three) = Placed(NewRender, Things(g))
    BY <2>1, ThreeThings, PlacedInTurn
  <2> QED BY <2>2 DEF Picture, three
<1>2. Picture(g) = [i \in Idxs |-> Picture(g)[i]]
  <2>1. Picture(g) = place(place(place(NewRender, Smiley(g)), Board(g)), Pick(g))
    BY <1>1, ThreeThings, PlacedInTurn
  <2> QED BY <2>1, Placing
<1>3. Merged(p, Changes(d, p)) = [i \in Idxs |-> Merged(p, Changes(d, p))[i]]
  BY DEF Merged
<1>5. ASSUME NEW i \in Idxs, NEW u
      PROVE  /\ Placed(u, Things(g))[i] = IF i \in BoardCovers THEN Ink(Board(g), i)
                             ELSE IF i \in SmileyCovers THEN Ink(Smiley(g), i) ELSE u[i]
             /\ i \in BoardCovers \cup SmileyCovers => Placed(u, Things(g))[i] \in CellsShown
  <2>1. g.pick \in {None, <<0, 0>>}
    OBVIOUS
  <2>2. PICK under : 
             /\ under = IF i \in BoardCovers THEN Ink(Board(g), i)
                        ELSE IF i \in SmileyCovers THEN Ink(Smiley(g), i) ELSE u[i]
             /\ i \in BoardCovers \cup SmileyCovers => under \in CellsShown
             /\ \/ Placed(u, Things(g))[i] = under
                \/ i \in BoardCovers /\ Placed(u, Things(g))[i] = [under EXCEPT !.bg = "red"]
             /\ g.pick = None => Placed(u, Things(g))[i] = under
    BY <2>1, DrawnOver
  <2> QED BY <2>2
<1>4. ASSUME NEW i \in Idxs PROVE Merged(p, Changes(d, p))[i] = Picture(g)[i]
  <2>0. ~IsEmpty(Blank) /\ IsEmpty(EmptyCell) /\ clean[i] = EmptyCell /\ NewRender[i] = Blank
    BY DEF IsEmpty, Blank, EmptyCell, clean, NewRender
  <2>1. CASE i \in BoardCovers \cup SmileyCovers
    <3>1. d[i] = Picture(g)[i] /\ d[i] \in CellsShown
      BY <1>1, <1>5, <2>1
    <3>2. ~IsEmpty(d[i])
      BY <3>1, ShownCells
    <3> HIDE DEF d
    <3> QED BY <3>1, <3>2, ShownNext
  <2>2. CASE i \notin BoardCovers \cup SmileyCovers
    <3>1. d[i] = b[i] /\ Picture(g)[i] = Blank
      BY <1>1, <1>5, <2>0, <2>2
    <3>2. d[i] = Blank \/ d[i] = EmptyCell
      BY <2>0, <3>1
    <3>3. p[i] = Blank /\ Blank \in CellsShown
      BY <2>2 DEF Blank, CellsShown, Glyphs
    <3> HIDE DEF d
    <3>4. Merged(p, Changes(d, p))[i] = IF IsEmpty(d[i]) THEN p[i] ELSE d[i]
      BY <2>0, <3>2, <3>3, ShownNext
    <3> QED BY <2>0, <3>1, <3>2, <3>3, <3>4
  <2> QED BY <2>1, <2>2
<1> QED BY <1>2, <1>3, <1>4

\* A blank window is a picture of shown cells.
LEMMA StartsPainted == Init => Painted
<1> SUFFICES ASSUME Init PROVE Painted
  OBVIOUS
<1>1. DrawnByHeight
  BY StartsByHeight
<1>2. game = Shut /\ Shut \in Games /\ ~over /\ ~Shut.bomb
  BY DEF Init, Shut, Games
<1>3. /\ pc \in [Goroutines -> Labels] /\ \A g \in Goroutines : pc[g] = "idle"
      /\ DOMAIN out = Goroutines /\ \A g \in Goroutines : DOMAIN out[g] = {}
  BY DEF Init, Goroutines, Labels, NoCells
<1>4. previous = NewRender /\ buffer = NewRender
  BY DEF Init
<1>5. NewRender = [i \in Idxs |-> Blank] /\ Blank \in CellsShown
  BY DEF NewRender, Blank, CellsShown, Glyphs
<1>6. pc["tick"] # "due"
  BY <1>3 DEF Goroutines
<1> QED BY <1>1, <1>2, <1>3, <1>4, <1>5, <1>6, Zenon DEF Painted

\* Steps that leave the game, the pictures and Render alone.
LEMMA StillPainted ==
    ASSUME Painted, UNCHANGED <<game, over, zs, buffer, previous, overlap>>,
           DOMAIN out' = Goroutines,
           \A g \in Goroutines : out'[g] = out[g] \/ out'[g] = NoCells,
           pc' \in [Goroutines -> Labels],
           \A g \in Goroutines : \/ pc'[g] = pc[g]
                                 \/ /\ pc[g] \in {"send", "sending", "removing"}
                                    /\ pc'[g] \in {"idle", "sending", "removing"}
    PROVE  Painted'
<1>1. pc'["tick"] # "due"
  BY DEF Painted, Goroutines
<1>2. \A g \in Goroutines : \A i \in DOMAIN out'[g] : i \in Idxs /\ out'[g][i] \in CellsShown
  BY DEF Painted, NoCells
<1>3. (\A g \in Goroutines : pc'[g] # "placed") => \A g \in Goroutines : pc[g] # "placed"
  OBVIOUS
<1>4. "tick" \in Goroutines /\ "main" \in Goroutines
  BY DEF Goroutines
<1>5. /\ pc["main"] = "due" => pc'["main"] = "due"
      /\ pc["tick"] = "idle" => pc'["tick"] = "idle"
      /\ pc["main"] = "placed" => pc'["main"] = "placed"
      /\ pc["main"] \in {"idle", "send", "sending", "removing"}
           => pc'["main"] \in {"idle", "send", "sending", "removing"}
  BY <1>4
<1>6. DrawnOnNothing' = DrawnOnNothing /\ Picture(game)' = Picture(game) /\ DrawnByHeight' = DrawnByHeight
  BY DEF DrawnOnNothing, Things, Thing, Picture, DrawnByHeight
<1> QED BY <1>1, <1>2, <1>3, <1>5, <1>6 DEF Painted

\* main changes what is to be seen; when it has revealed the bombs it is to render.
LEMMA MainPaints == ASSUME Painted, Shows PROVE Painted'
<1>0. /\ UNCHANGED <<zs, buffer, previous, out, overlap>>
      /\ ShowLead \/ ShowCell \/ Finish \/ ShowBombs \/ ShowReset
  BY DEF Shows, Still, screen, history
<1>1. game' \in Games /\ (over' => game'.pick = None) /\ (game'.bomb => over')
  <2>0. game \in Games /\ (over => game.pick = None) /\ (game.bomb => over)
    BY DEF Painted
  <2>1. CASE ShowLead
    BY <2>0, <2>1 DEF Games, ShowLead, Clock, Changed
  <2>2. CASE ShowCell
    BY <2>0, <2>2 DEF Games, ShowCell, Clock, Changed
  <2>3. CASE Finish
    BY <2>0, <2>3 DEF Games, Finish, Clock, Changed
  <2>4. CASE ShowBombs
    BY <2>0, <2>4 DEF Games, ShowBombs, Changed
  <2>5. CASE ShowReset
    BY <2>5 DEF Games, ShowReset, Changed, Shut
  <2> QED BY <1>0, <2>1, <2>2, <2>3, <2>4, <2>5
<1>2. pc' \in [Goroutines -> Labels] /\ pc'["tick"] = pc["tick"]
  BY <1>0 DEF Painted, ShowLead, ShowCell, Finish, ShowBombs, ShowReset, Goroutines, Labels
<1>3. \A g \in Goroutines : pc'[g] # "placed" => pc[g] # "placed"
  BY <1>0 DEF Painted, ShowLead, ShowCell, Finish, ShowBombs, ShowReset, Goroutines, Labels
<1>4. over' /\ game'.bomb => pc'["main"] = "due"
  <2>1. CASE ShowLead \/ ShowCell
    BY <1>1, <2>1 DEF ShowLead, ShowCell, Clock
  <2>2. CASE Finish
    <3>1. ~game.bomb
      BY <2>2 DEF Finish, Clock, Painted
    <3> QED BY <2>2, <3>1 DEF Finish, Changed, Painted, Games
  <2>3. CASE ShowBombs
    BY <2>3 DEF ShowBombs, Painted, Goroutines
  <2>4. CASE ShowReset
    BY <2>4 DEF ShowReset
  <2> QED BY <1>0, <2>1, <2>2, <2>3, <2>4
<1>5. DrawnByHeight'
  BY <1>0 DEF Painted, DrawnByHeight
<1> QED BY <1>0, <1>1, <1>2, <1>3, <1>4, <1>5 DEF Painted

\* Whatever is drawn over shown or empty cells is that, too.
LEMMA PlacePaints == ASSUME Painted, NEW g \in Goroutines, Place(g) PROVE Painted'
<1>0. /\ UNCHANGED <<game, over, zs, previous, out>>
      /\ IF g = "main" THEN pc[g] = "due" ELSE pc[g] = "idle" /\ ~over
      /\ pc' = [pc EXCEPT ![g] = "placed"] /\ buffer' = Placed(buffer, Things(game))
      /\ overlap' = (overlap \/ pc[Other(g)] \notin {"idle", "due"})
  BY DEF Place
<1>1. DrawnByHeight /\ DrawnByHeight'
  BY <1>0 DEF Painted, DrawnByHeight
<1>2. pc' \in [Goroutines -> Labels] /\ pc'["tick"] # "due" /\ pc'[g] = "placed"
  BY <1>0 DEF Painted, Goroutines, Labels
<1>3. ASSUME NEW i \in Idxs
      PROVE  /\ buffer'[i] \in CellsShown \/ IsEmpty(buffer'[i])
             /\ i \notin BoardCovers \cup SmileyCovers => buffer'[i] = buffer[i]
  <2>1. game.pick \in {None, <<0, 0>>}
    BY DEF Painted, Games
  <2>2. PICK under : 
             /\ under = IF i \in BoardCovers THEN Ink(Board(game), i)
                        ELSE IF i \in SmileyCovers THEN Ink(Smiley(game), i) ELSE buffer[i]
             /\ i \in BoardCovers \cup SmileyCovers => under \in CellsShown
             /\ \/ Placed(buffer, Things(game))[i] = under
                \/ i \in BoardCovers /\ Placed(buffer, Things(game))[i] = [under EXCEPT !.bg = "red"]
             /\ game.pick = None => Placed(buffer, Things(game))[i] = under
    BY <1>1, <2>1, DrawnOver
  <2>3. buffer[i] \in CellsShown \/ IsEmpty(buffer[i])
    BY DEF Painted
  <2>4. CASE i \in BoardCovers \cup SmileyCovers
    <3>1. under \in CellsShown /\ [under EXCEPT !.bg = "red"] \in CellsShown
      BY <2>2, <2>4, ShownCells
    <3> QED BY <1>0, <2>2, <2>4, <3>1
  <2>5. CASE i \notin BoardCovers \cup SmileyCovers
    <3>1. Placed(buffer, Things(game))[i] = buffer[i]
      BY <2>2, <2>5
    <3> QED BY <1>0, <2>3, <2>5, <3>1
  <2> QED BY <2>4, <2>5
<1>4. ASSUME ~overlap', over, game.bomb
      PROVE  pc'["tick"] = "idle" /\ pc'["main"] = "placed" /\ DrawnOnNothing'
  <2>1. g = "main" /\ pc["main"] = "due"
    BY <1>0, <1>4
  <2>2. "tick" \in Goroutines /\ "tick" # g
    BY <2>1 DEF Goroutines
  <2>3. Other(g) = "tick"
    BY <2>2, Others
  <2>4. pc["tick"] = "idle"
    BY <1>0, <1>4, <2>3 DEF Painted
  <2>5. \A h \in Goroutines : pc[h] # "placed"
    BY <2>1, <2>4 DEF Goroutines
  <2>6. buffer \in {clean, NewRender}
    BY <2>5 DEF Painted
  <2>7. Things(game)' = Things(game) /\ clean' = clean /\ NewRender' = NewRender
    BY <1>0 DEF Things, Thing
  <2>8. DrawnOnNothing'
    BY <1>0, <2>6, <2>7 DEF DrawnOnNothing
  <2> QED BY <1>0, <1>2, <2>1, <2>2, <2>4, <2>8 DEF Painted
<1>5. ~(\A h \in Goroutines : pc'[h] # "placed")
  BY <1>2
<1> QED BY <1>0, <1>1, <1>2, <1>3, <1>4, <1>5 DEF Painted

\* What differs from what was shown is a shown cell, and what has been drawn is shown.
LEMMA ComparePaints == ASSUME Painted, NEW g \in Goroutines, Compare(g) PROVE Painted'
<1> DEFINE cells == Changes(buffer, previous)
<1>0. /\ UNCHANGED <<game, over, zs, overlap>> /\ pc[g] = "placed"
      /\ out' = [out EXCEPT ![g] = cells] /\ previous' = Merged(previous, cells)
      /\ pc' = [pc EXCEPT ![g] = IF g = "tick" /\ cells = NoCells THEN "idle" ELSE "send"]
      /\ buffer' = clean
  BY DEF Compare, history
<1>1. DrawnByHeight /\ DrawnByHeight'
  BY <1>0 DEF Painted, DrawnByHeight
<1>2. pc' \in [Goroutines -> Labels] /\ pc'["tick"] # "due"
  BY <1>0 DEF Painted, Goroutines, Labels
<1>3. ASSUME NEW i \in Idxs PROVE
        previous'[i] = IF IsEmpty(buffer[i]) THEN previous[i] ELSE buffer[i]
  BY <1>0, ShownNext DEF Painted
<1>4. previous' = [i \in Idxs |-> previous'[i]]
  BY <1>0 DEF Merged
<1>5. \A i \in Idxs : buffer'[i] = EmptyCell /\ IsEmpty(buffer'[i])
  BY <1>0 DEF clean, IsEmpty, EmptyCell
<1>6. \A i \in Idxs : previous'[i] \in CellsShown
  BY <1>3 DEF Painted
<1>7. \A i \in Idxs \ (BoardCovers \cup SmileyCovers) : previous'[i] = Blank
  <2>1. IsEmpty(EmptyCell)
    BY DEF IsEmpty, EmptyCell
  <2> QED BY <1>3, <2>1 DEF Painted
<1>8. ASSUME NEW h \in Goroutines, NEW i \in DOMAIN out'[h]
      PROVE  i \in Idxs /\ out'[h][i] \in CellsShown
  <2>1. CASE h = g
    <3>1. out'[h] = cells
      BY <1>0, <2>1 DEF Painted
    <3>2. i \in Idxs /\ ~IsEmpty(buffer[i]) /\ cells[i] = buffer[i]
      BY <3>1, ChangesIn
    <3> HIDE DEF cells
    <3> QED BY <3>1, <3>2 DEF Painted
  <2>2. CASE h # g
    <3>1. out'[h] = out[h]
      BY <1>0, <2>2 DEF Painted
    <3> QED BY <3>1 DEF Painted
  <2> QED BY <2>1, <2>2
<1>9. ASSUME ~overlap, over, game.bomb
      PROVE  \/ pc'["main"] = "due"
             \/ /\ pc'["tick"] = "idle" /\ pc'["main"] \in {"idle", "send", "sending", "removing"}
                /\ previous' = Picture(game)
  <2>0. pc \in [Goroutines -> Labels]
    BY DEF Painted
  <2>1. CASE g = "tick"
    <3>1. pc["main"] = "due"
      BY <1>0, <1>9, <2>1 DEF Painted
    <3> QED BY <1>0, <2>0, <2>1, <3>1 DEF Goroutines
  <2>2. CASE g = "main"
    <3>1. pc["tick"] = "idle" /\ DrawnOnNothing
      BY <1>0, <1>9, <2>2 DEF Painted
    <3>2. PICK b \in {clean, NewRender} : buffer = Placed(b, Things(game))
      BY <3>1 DEF DrawnOnNothing
    <3>3. previous' = Picture(game)
      BY <1>0, <1>1, <1>9, <3>2, DrawnIsPicture DEF Painted
    <3>4. pc'["tick"] = "idle" /\ pc'["main"] = "send"
      BY <1>0, <2>0, <2>2, <3>1 DEF Goroutines
    <3> QED BY <3>3, <3>4
  <2> QED BY <2>1, <2>2 DEF Goroutines
<1>10. Picture(game)' = Picture(game)
  BY <1>0
<1> HIDE DEF cells
<1>11. DOMAIN out' = Goroutines
  BY <1>0 DEF Painted
<1> QED BY <1>0, <1>1, <1>2, <1>4, <1>5, <1>6, <1>7, <1>8, <1>9, <1>10, <1>11 DEF Painted

\* Every step paints.
LEMMA NextPaints == Painted /\ Next => Painted'
<1> SUFFICES ASSUME Painted, Next PROVE Painted'
  OBVIOUS
<1>0. pc \in [Goroutines -> Labels] /\ DOMAIN out = Goroutines
  BY DEF Painted
<1>1. CASE Shows
  BY <1>1, MainPaints
<1>2. ASSUME UNCHANGED <<game, over, zs, screen, pc, overlap>> PROVE Painted'
  BY <1>0, <1>2, StillPainted DEF screen
<1>3. CASE WelcomeMessage \/ Start \/ \E c \in Clients : Leave(c) \/ Stall(c) \/ Resume(c)
  <2>1. UNCHANGED <<game, over, zs, screen, pc, overlap>>
    BY <1>3 DEF WelcomeMessage, Start, Accept, Welcome, Join, Leave, Stall, Resume, history
  <2> QED BY <1>2, <2>1
<1>4. ASSUME NEW g \in Goroutines, Render(g) \/ Send(g) PROVE Painted'
  <2>1. CASE Place(g)
    BY <2>1, PlacePaints
  <2>2. CASE Compare(g)
    BY <2>2, ComparePaints
  <2>3. CASE RLock(g) \/ RUnlock(g) \/ RemoveSockets(g)
    <3>1. UNCHANGED <<game, over, zs, buffer, previous, overlap>>
      BY <2>3 DEF RLock, RUnlock, RemoveSockets, screen, history
    <3>2. DOMAIN out' = Goroutines /\ \A h \in Goroutines : out'[h] = out[h] \/ out'[h] = NoCells
      BY <1>0, <2>3 DEF RLock, RUnlock, RemoveSockets, screen
    <3>3. /\ pc' \in [Goroutines -> Labels]
          /\ \A h \in Goroutines : \/ pc'[h] = pc[h]
                                   \/ /\ pc[h] \in {"send", "sending", "removing"}
                                      /\ pc'[h] \in {"idle", "sending", "removing"}
      BY <1>0, <2>3 DEF RLock, RUnlock, RemoveSockets, Labels
    <3> QED BY <3>1, <3>2, <3>3, StillPainted
  <2>4. CASE Write(g)
    <3>1. UNCHANGED <<game, over, zs, screen, pc, overlap>>
      BY <2>4 DEF Write, history
    <3> QED BY <1>2, <3>1
  <2> QED BY <1>4, <2>1, <2>2, <2>3, <2>4 DEF Render, Send
<1> QED BY <1>1, <1>3, <1>4 DEF Next

\* Whoever has been sent a window, or is one of sockets, shows a picture of shown cells or has left.
Seen ==
    /\ DOMAIN view = Clients
    /\ \A c \in Clients : view[c] = <<>> \/ \A i \in Idxs : view[c][i] \in CellsShown
    /\ sockets \in Seq(Clients) /\ nth \in [Goroutines -> Nat] /\ welcomes \in {2, 3}
    /\ hello \in [conn : Clients \cup {NoConn}, sent : 0 .. 3, due : {0, 2, 3}]
    /\ hello # Nobody => hello.conn \in Clients /\ hello.sent <= hello.due /\ hello.due # 0
    /\ hello.sent >= 2 => view[hello.conn] # <<>> \/ hello.conn \in left
    /\ \A i \in DOMAIN sockets : view[sockets[i]] # <<>> \/ sockets[i] \in left
    /\ left \in SUBSET Clients /\ reset \in SUBSET left /\ stalled \in SUBSET (Clients \ left)

\* At the start nobody has a window.
LEMMA StartsSeen == Init => Seen
BY DEF Init, Seen, Nobody, NoConn, Goroutines

\* A picture over which shown cells are put.
LEMMA MergedShown ==
    ASSUME NEW p, NEW cells, \A i \in Idxs : p[i] \in CellsShown,
           \A i \in DOMAIN cells : i \in Idxs /\ cells[i] \in CellsShown
    PROVE  Merged(p, cells) # <<>> /\ \A i \in Idxs : Merged(p, cells)[i] \in CellsShown
<1>1. DOMAIN Merged(p, cells) = Idxs
  BY DEF Merged
<1>2. ASSUME NEW i \in Idxs PROVE Merged(p, cells)[i] \in CellsShown
  <2>1. Merged(p, cells)[i] = IF i \in DOMAIN cells THEN Merge(p[i], cells[i]) ELSE p[i]
    BY DEF Merged
  <2>2. i \in DOMAIN cells => Merge(p[i], cells[i]) = cells[i]
    BY ShownCells
  <2> QED BY <2>1, <2>2
<1> QED BY <1>1, <1>2, PicturesAreThere

\* Steps that leave the clients and their connections alone.
LEMMA StillSeen ==
    ASSUME Seen, UNCHANGED <<view, sockets, welcomes, hello, left, reset, stalled>>,
           nth' \in [Goroutines -> Nat]
    PROVE  Seen'
BY DEF Seen

\* A change of shown cells over a picture of shown cells is one.
LEMMA WriteSeen == ASSUME Painted, Seen, NEW g \in Goroutines, Write(g) PROVE Seen'
<1> DEFINE c == sockets[nth[g] + 1]
<1>0. /\ UNCHANGED <<sockets, welcomes, hello, left, stalled>> /\ nth[g] < Len(sockets)
      /\ nth' = [nth EXCEPT ![g] = @ + 1]
      /\ reset' = reset \/ (c \in left /\ reset' = reset \cup {c})
      /\ view' = view \/ (c \notin left /\ view' = [view EXCEPT ![c] = Merged(@, out[g])])
  BY DEF Write, WriteOk, WriteFails
<1>1. nth[g] + 1 \in DOMAIN sockets /\ c \in Clients /\ nth' \in [Goroutines -> Nat]
  BY <1>0 DEF Seen
<1>2. reset' \in SUBSET left
  BY <1>0 DEF Seen
<1>3. CASE view' = view
  BY <1>0, <1>1, <1>2, <1>3 DEF Seen
<1>4. CASE c \notin left /\ view' = [view EXCEPT ![c] = Merged(@, out[g])]
  <2>1. view[c] # <<>>
    BY <1>1, <1>4 DEF Seen
  <2>2. \A i \in Idxs : view[c][i] \in CellsShown
    BY <1>1, <2>1 DEF Seen
  <2>3. Merged(view[c], out[g]) # <<>> /\ \A i \in Idxs : Merged(view[c], out[g])[i] \in CellsShown
    BY <2>2, MergedShown DEF Painted
  <2> HIDE DEF c
  <2>4. /\ DOMAIN view' = Clients /\ view'[c] = Merged(view[c], out[g])
        /\ \A d \in Clients : d # c => view'[d] = view[d]
    BY <1>1, <1>4 DEF Seen
  <2>5. \A d \in Clients : view'[d] # <<>> \/ view'[d] = view[d]
    BY <2>3, <2>4
  <2>6. \A d \in Clients : view'[d] = <<>> \/ \A i \in Idxs : view'[d][i] \in CellsShown
    <3> TAKE d \in Clients
    <3> QED BY <2>3, <2>4 DEF Seen
  <2>7. hello.sent >= 2 => hello # Nobody
    BY DEF Nobody
  <2>8. hello.sent >= 2 => hello.conn \in Clients
    BY <2>7 DEF Seen
  <2>9. \A i \in DOMAIN sockets : sockets[i] \in Clients
    BY DEF Seen
  <2> QED BY <1>0, <1>1, <1>2, <2>4, <2>5, <2>6, <2>8, <2>9 DEF Seen
<1> QED BY <1>0, <1>3, <1>4

\* Those who are left among sockets were among them.
LEMMA RemoveSocketsSeen == ASSUME Seen, NEW g \in Goroutines, RemoveSockets(g) PROVE Seen'
<1>0. UNCHANGED <<view, welcomes, hello, left, reset, stalled, nth>>
  BY DEF RemoveSockets, ends
<1>1. CASE sockets' = sockets
  BY <1>0, <1>1 DEF Seen
<1>2. CASE sockets' = Without(sockets, removals[g])
  <2> DEFINE kept == DOMAIN sockets \ {i + 1 : i \in ToSet(removals[g])}
             at(n) == CHOOSE k \in kept : Rank(kept, k) = n
  <2>1. sockets' = [n \in 1 .. Cardinality(kept) |-> sockets[at(n)]]
    BY <1>2, Zenon DEF Without
  <2>2. sockets \in Seq(Clients) /\ DOMAIN sockets = 1 .. Len(sockets) /\ Len(sockets) \in Nat
    BY DEF Seen
  <2>3. IsFiniteSet(DOMAIN sockets)
    BY <2>2, FS_Interval
  <2>4. IsFiniteSet(kept) /\ kept \subseteq Nat /\ Cardinality(kept) \in Nat
    BY <2>2, <2>3, FS_Subset, FS_CardinalityType
  <2> HIDE DEF kept
  <2>5. \A n \in 1 .. Cardinality(kept) : \E k \in kept : Rank(kept, k) = n
    BY <2>4, EveryRank
  <2>6. \A n \in 1 .. Cardinality(kept) : at(n) \in kept
    BY <2>5
  <2>7. \A n \in 1 .. Cardinality(kept) : at(n) \in DOMAIN sockets
    BY <2>6 DEF kept
  <2> HIDE DEF at
  <2>8. \A n \in 1 .. Cardinality(kept) : sockets[at(n)] \in Clients
    BY <2>2, <2>7
  <2>9. sockets' \in Seq(Clients) /\ DOMAIN sockets' = 1 .. Cardinality(kept)
    BY <2>1, <2>4, <2>8
  <2>10. \A n \in DOMAIN sockets' : view[sockets'[n]] # <<>> \/ sockets'[n] \in left
    BY <2>1, <2>7, <2>9 DEF Seen
  <2> QED BY <1>0, <2>9, <2>10 DEF Seen
<1> QED BY <1>1, <1>2 DEF RemoveSockets

\* Nothing has been sent to the one who is accepted.
LEMMA AcceptSeen == ASSUME Seen, NEW c \in Clients, Accept(c) PROVE Seen'
<1>1. /\ UNCHANGED <<view, sockets, welcomes, left, reset, stalled, nth>>
      /\ hello' = [conn |-> c, sent |-> 0, due |-> welcomes]
  BY DEF Accept, ends, send
<1>2. /\ hello' \in [conn : Clients \cup {NoConn}, sent : 0 .. 3, due : {0, 2, 3}]
      /\ hello'.conn \in Clients /\ hello'.sent <= hello'.due /\ hello'.due # 0 /\ ~(hello'.sent >= 2)
  BY <1>1 DEF Seen
<1> QED BY <1>1, <1>2 DEF Seen

\* A blank window and the picture that was shown are pictures of shown cells.
LEMMA WelcomeSeen == ASSUME Painted, Seen, Welcome PROVE Seen'
<1> DEFINE c == hello.conn
           n == hello.sent + 1
<1>0. /\ UNCHANGED <<sockets, welcomes, left, stalled, nth>> /\ hello # Nobody /\ hello.sent < hello.due
      /\ \/ /\ reset' = reset \/ (c \in left /\ reset' = reset \cup {c})
            /\ view' = IF c \in left THEN view ELSE [view EXCEPT ![c] = Shown(c, n)]
            /\ hello' = [hello EXCEPT !.sent = @ + 1]
         \/ reset' = reset /\ view' = view /\ hello' = Nobody
  BY DEF Welcome, WriteOk, WriteFails, send
<1>1. c \in Clients /\ hello.due \in {2, 3} /\ hello.sent \in 0 .. 2 /\ n \in 1 .. 3
  BY <1>0 DEF Seen
<1>2. reset' \in SUBSET left
  BY <1>0 DEF Seen
<1>3. CASE hello' = Nobody /\ view' = view
  <2>1. hello' \in [conn : Clients \cup {NoConn}, sent : 0 .. 3, due : {0, 2, 3}] /\ ~(hello'.sent >= 2)
    BY <1>3 DEF Nobody
  <2> QED BY <1>0, <1>2, <1>3, <2>1 DEF Seen
<1>4. CASE /\ view' = IF c \in left THEN view ELSE [view EXCEPT ![c] = Shown(c, n)]
           /\ hello' = [hello EXCEPT !.sent = @ + 1]
  <2>1. /\ hello' \in [conn : Clients \cup {NoConn}, sent : 0 .. 3, due : {0, 2, 3}]
        /\ hello'.conn = c /\ hello'.sent = n /\ hello'.sent <= hello'.due /\ hello'.due # 0
    BY <1>0, <1>1, <1>4 DEF Seen
  <2>2. /\ n = 1 => Shown(c, n) = view[c]
        /\ n = 2 => Shown(c, n) = NewRender
        /\ n = 3 => Shown(c, n) = previous
    BY <1>1 DEF Shown, FullRender
  <2>3. /\ NewRender # <<>> /\ \A i \in Idxs : NewRender[i] \in CellsShown
    <3>1. DOMAIN NewRender = Idxs /\ \A i \in Idxs : NewRender[i] = Blank
      BY DEF NewRender
    <3>2. Blank \in CellsShown
      BY DEF Blank, CellsShown, Glyphs
    <3> QED BY <3>1, <3>2, PicturesAreThere
  <2>4. previous # <<>> /\ \A i \in Idxs : previous[i] \in CellsShown
    <3>1. DOMAIN previous = Idxs
      BY DEF Painted
    <3> QED BY <3>1, PicturesAreThere DEF Painted
  <2>5. /\ Shown(c, n) = view[c] \/ (Shown(c, n) # <<>> /\ \A i \in Idxs : Shown(c, n)[i] \in CellsShown)
        /\ n >= 2 => Shown(c, n) # <<>>
    BY <1>1, <2>2, <2>3, <2>4
  <2> HIDE DEF c, n
  <2>6. /\ c \notin left => view'[c] = Shown(c, n)
        /\ \A d \in Clients : view'[d] = view[d] \/ (d = c /\ c \notin left /\ view'[d] = Shown(c, n))
    BY <1>1, <1>4 DEF Seen
  <2>7. \A d \in Clients : view'[d] = <<>> \/ \A i \in Idxs : view'[d][i] \in CellsShown
    <3> TAKE d \in Clients
    <3>1. view[d] = <<>> \/ \A i \in Idxs : view[d][i] \in CellsShown
      BY DEF Seen
    <3> QED BY <2>5, <2>6, <3>1
  <2>8. n >= 2 => view'[c] # <<>> \/ c \in left
    BY <2>5, <2>6
  <2>9. \A d \in Clients : view[d] # <<>> => view'[d] # <<>>
    BY <2>5, <2>6
  <2>10. \A i \in DOMAIN sockets : sockets[i] \in Clients
    BY DEF Seen
  <2>11. DOMAIN view' = Clients
    BY <1>4 DEF Seen
  <2>12. \A i \in DOMAIN sockets : view'[sockets[i]] # <<>> \/ sockets[i] \in left
    BY <2>9, <2>10 DEF Seen
  <2> QED BY <1>0, <1>1, <1>2, <2>1, <2>7, <2>8, <2>11, <2>12 DEF Seen
<1> QED BY <1>0, <1>3, <1>4

\* Who joins has been sent his window.
LEMMA JoinSeen == ASSUME Seen, Join PROVE Seen'
<1>1. /\ UNCHANGED <<view, welcomes, left, reset, stalled, nth>> /\ hello # Nobody /\ hello.sent = hello.due
      /\ sockets' = Append(sockets, hello.conn) /\ hello' = Nobody
  BY DEF Join, ends, send
<1>2. hello.conn \in Clients /\ hello.sent >= 2
  BY <1>1 DEF Seen
<1>3. view[hello.conn] # <<>> \/ hello.conn \in left
  BY <1>2 DEF Seen
<1>4. sockets' \in Seq(Clients) /\ \A i \in DOMAIN sockets' : i \in DOMAIN sockets \/ sockets'[i] = hello.conn
  BY <1>1, <1>2 DEF Seen
<1>5. \A i \in DOMAIN sockets : sockets'[i] = sockets[i]
  BY <1>1 DEF Seen
<1>6. \A i \in DOMAIN sockets' : view[sockets'[i]] # <<>> \/ sockets'[i] \in left
  BY <1>3, <1>4, <1>5 DEF Seen
<1>7. hello' \in [conn : Clients \cup {NoConn}, sent : 0 .. 3, due : {0, 2, 3}] /\ ~(hello'.sent >= 2)
  BY <1>1 DEF Nobody
<1> QED BY <1>1, <1>4, <1>6, <1>7 DEF Seen

\* Who leaves shows nothing.
LEMMA LeaveSeen == ASSUME Seen, NEW c \in Clients, Leave(c) PROVE Seen'
<1>1. /\ UNCHANGED <<sockets, welcomes, hello, reset, nth>>
      /\ left' = left \cup {c} /\ stalled' = stalled \ {c} /\ view' = [view EXCEPT ![c] = <<>>]
  BY DEF Leave, send
<1>2. left' \in SUBSET Clients /\ reset' \in SUBSET left' /\ stalled' \in SUBSET (Clients \ left')
  BY <1>1 DEF Seen
<1>3. DOMAIN view' = Clients /\ view'[c] = <<>> /\ \A d \in Clients : d # c => view'[d] = view[d]
  BY <1>1 DEF Seen
<1>4. \A d \in Clients : view'[d] = <<>> \/ \A i \in Idxs : view'[d][i] \in CellsShown
  <2> TAKE d \in Clients
  <2>1. view[d] = <<>> \/ \A i \in Idxs : view[d][i] \in CellsShown
    BY DEF Seen
  <2> QED BY <1>3, <2>1
<1>5. \A d \in Clients : view[d] # <<>> \/ d \in left => view'[d] # <<>> \/ d \in left'
  BY <1>1, <1>3
<1>6. \A i \in DOMAIN sockets : sockets[i] \in Clients
  BY DEF Seen
<1>7. hello.sent >= 2 => hello.conn \in Clients
  <2>1. hello.sent >= 2 => hello # Nobody
    BY DEF Nobody
  <2> QED BY <2>1 DEF Seen
<1>8. \A i \in DOMAIN sockets : view'[sockets[i]] # <<>> \/ sockets[i] \in left'
  BY <1>5, <1>6 DEF Seen
<1>9. hello.sent >= 2 => view'[hello.conn] # <<>> \/ hello.conn \in left'
  BY <1>5, <1>7 DEF Seen
<1> QED BY <1>1, <1>2, <1>3, <1>4, <1>8, <1>9 DEF Seen

\* Who does not read is there, and shows what he has read.
LEMMA StallSeen == ASSUME Seen, NEW c \in Clients, Stall(c) \/ Resume(c) PROVE Seen'
<1>1. UNCHANGED <<view, sockets, welcomes, hello, left, reset, nth>>
  BY DEF Stall, Resume, send
<1>2. stalled' \in SUBSET (Clients \ left)
  BY DEF Seen, Stall, Resume
<1> QED BY <1>1, <1>2 DEF Seen

\* Every step keeps what clients show.
LEMMA NextSeen == Painted /\ Seen /\ Next => Seen'
<1> SUFFICES ASSUME Painted, Seen, Next PROVE Seen'
  OBVIOUS
<1>1. CASE Shows
  <2>1. UNCHANGED <<view, sockets, welcomes, hello, left, reset, stalled, nth>>
    BY <1>1 DEF Shows, Still, send, ends
  <2> QED BY <2>1, StillSeen DEF Seen
<1>2. CASE WelcomeMessage
  <2>1. UNCHANGED <<view, sockets, hello, left, reset, stalled, nth>> /\ welcomes' = 3
    BY <1>2 DEF WelcomeMessage, ends, send
  <2> QED BY <2>1 DEF Seen
<1>3. CASE Start
  BY <1>3, AcceptSeen, WelcomeSeen, JoinSeen DEF Start
<1>4. CASE \E c \in Clients : Leave(c) \/ Stall(c) \/ Resume(c)
  BY <1>4, LeaveSeen, StallSeen
<1>5. ASSUME NEW g \in Goroutines, Render(g) \/ Send(g) PROVE Seen'
  <2>1. CASE Place(g) \/ Compare(g) \/ RLock(g) \/ RUnlock(g)
    <3>1. /\ UNCHANGED <<view, sockets, welcomes, hello, left, reset, stalled>>
          /\ nth' = nth \/ nth' = [nth EXCEPT ![g] = 0]
      BY <2>1 DEF Place, Compare, RLock, RUnlock, ends, send, history
    <3>2. nth' \in [Goroutines -> Nat]
      BY <3>1 DEF Seen
    <3> QED BY <3>1, <3>2, StillSeen
  <2> QED BY <1>5, <2>1, WriteSeen, RemoveSocketsSeen DEF Render, Send
<1> QED BY <1>1, <1>2, <1>3, <1>4, <1>5 DEF Next

\* Both together say that nothing but drawn cells is sent, kept or shown.
LEMMA PaintedSeenTyped == Painted /\ Seen => TypeOK
BY DEF Painted, Seen, TypeOK

\* What the clients show is what was shown, and that is the end.
LEMMA EndFollows == Painted /\ ClientsInStep => EndIsShown
<1> SUFFICES ASSUME Painted, ClientsInStep, over, game.bomb, pc["main"] = "idle", pc["tick"] = "idle",
                    NEW c \in Clients, Sure(c)
             PROVE  view[c] = Picture(game)
  BY DEF EndIsShown
<1>1. \A g \in Goroutines : Quiet(g)
  BY DEF Quiet, Goroutines
<1>2. view[c] = previous
  BY <1>1 DEF ClientsInStep
<1>3. ~overlap
  BY DEF Sure
<1> QED BY <1>2, <1>3 DEF Painted
-----------------------------------------------------------------------------
(* Going through a finite set *)

\* A non-empty set of naturals has a smallest element.
LEMMA Smallest == ASSUME NEW T \in SUBSET Nat, T # {} PROVE \E x \in T : \A y \in T : x <= y
<1> DEFINE Below(x) == {y \in T : y < x}
           F == {Below(x) : x \in T}
<1>1. ASSUME NEW x \in T PROVE Below(x) \in FiniteSubsetsOf(Nat)
  <2>1. IsFiniteSet(0..x)
    BY FS_Interval
  <2>2. \A y \in Below(x) : y \in 0..x
    OBVIOUS
  <2>3. Below(x) \in SUBSET (0..x) /\ Below(x) \in SUBSET Nat
    BY <2>2, Zenon
  <2> QED BY <2>1, <2>3, FS_Subset DEF FiniteSubsetsOf
<1>2. F \subseteq FiniteSubsetsOf(Nat) /\ F # {}
  BY <1>1
<1>3. IsWellFoundedOn(StrictSubsetOrdering(Nat), FiniteSubsetsOf(Nat))
  BY FS_StrictSubsetOrderingWellFounded
<1> HIDE DEF F
<1>4. PICK D \in F : \A E \in F : ~(<<E, D>> \in StrictSubsetOrdering(Nat))
  BY <1>2, <1>3, WFMin, Zenon
<1>5. PICK x \in T : D = Below(x)
  BY <1>4 DEF F
<1>6. ASSUME NEW y \in T, y < x PROVE FALSE
  <2>1. y \in Below(x) /\ y \notin Below(y) /\ \A z \in Below(y) : z \in Below(x)
    BY <1>6
  <2>2. Below(y) \in F
    BY DEF F
  <2>3. Below(y) \in SUBSET Nat /\ Below(x) \in SUBSET Nat
    OBVIOUS
  <2> HIDE DEF Below
  <2>4. <<Below(y), D>> \in StrictSubsetOrdering(Nat)
    BY <1>5, <2>1, <2>3 DEF StrictSubsetOrdering
  <2> QED BY <1>4, <2>2, <2>4
<1> QED BY <1>6

\* What holds of 0, and of n + 1 when of n, holds of every natural.
LEMMA Induct == ASSUME NEW T, 0 \in T, \A n \in Nat : n \in T => n + 1 \in T PROVE Nat \subseteq T
<1> SUFFICES ASSUME Nat \ T # {} PROVE FALSE
  OBVIOUS
<1>1. PICK n \in Nat \ T : \A m \in Nat \ T : n <= m
  BY Smallest
<1>2. n # 0 /\ n - 1 \in Nat /\ n - 1 \in T
  BY <1>1
<1> QED BY <1>2

\* Going through a finite set element by element: what g makes of an element and the rest.
pick(s) == CHOOSE x \in s : TRUE
GoesThrough(f, g, z, s) == f[s] = IF s = {} THEN z ELSE g[<<pick(s), f[s \ {pick(s)}]>>]

\* What is left of a finite set when one element is taken.
LEMMA LessOne ==
    ASSUME NEW S, IsFiniteSet(S), NEW s \in SUBSET S, s # {}
    PROVE  /\ pick(s) \in s /\ s \ {pick(s)} \in SUBSET S
           /\ Cardinality(s) \in Nat \ {0} /\ Cardinality(s \ {pick(s)}) = Cardinality(s) - 1
<1>1. IsFiniteSet(s)
  BY FS_Subset
<1>2. pick(s) \in s
  BY DEF pick
<1>3. Cardinality(s) \in Nat /\ Cardinality(s) # 0
  BY <1>1, FS_CardinalityType, FS_EmptySet
<1> QED BY <1>1, <1>2, <1>3, FS_RemoveElement

\* A finite set can be gone through.
LEMMA FoldExists ==
    ASSUME NEW S, IsFiniteSet(S), NEW D, NEW z \in D, NEW g \in [S \X D -> D]
    PROVE  \E f \in [SUBSET S -> D] : \A s \in SUBSET S : GoesThrough(f, g, z, s)
<1> DEFINE Up(f, n) == \A s \in SUBSET S : Cardinality(s) <= n => GoesThrough(f, g, z, s)
           T == {n \in Nat : \E f \in [SUBSET S -> D] : Up(f, n)}
<1>0. \A s \in SUBSET S : Cardinality(s) \in Nat /\ (Cardinality(s) = 0 <=> s = {})
  BY FS_Subset, FS_CardinalityType, FS_EmptySet
<1>1. 0 \in T
  <2> DEFINE f == [s \in SUBSET S |-> z]
  <2>1. f \in [SUBSET S -> D]
    OBVIOUS
  <2>2. Up(f, 0)
    BY <1>0 DEF GoesThrough
  <2> QED BY <2>1, <2>2
<1>2. ASSUME NEW n \in Nat, n \in T PROVE n + 1 \in T
  <2>1. PICK f \in [SUBSET S -> D] : Up(f, n)
    BY <1>2
  <2> DEFINE h == [s \in SUBSET S |-> IF Cardinality(s) = n + 1 THEN g[<<pick(s), f[s \ {pick(s)}]>>]
                                      ELSE f[s]]
  <2>2. \A s \in SUBSET S : s # {} =>
          /\ pick(s) \in s /\ s \ {pick(s)} \in SUBSET S
          /\ Cardinality(s) \in Nat \ {0} /\ Cardinality(s \ {pick(s)}) = Cardinality(s) - 1
    BY LessOne
  <2>3. h \in [SUBSET S -> D]
    <3> SUFFICES ASSUME NEW s \in SUBSET S, Cardinality(s) = n + 1
                 PROVE  g[<<pick(s), f[s \ {pick(s)}]>>] \in D
      BY <2>1
    <3>1. s # {}
      BY <1>0
    <3>2. <<pick(s), f[s \ {pick(s)}]>> \in S \X D
      BY <2>1, <2>2, <3>1
    <3> QED BY <3>2
  <2>4. ASSUME NEW s \in SUBSET S, Cardinality(s) <= n + 1 PROVE GoesThrough(h, g, z, s)
    <3>1. CASE s = {}
      <4>1. Cardinality(s) # n + 1 /\ Cardinality(s) <= n
        BY <1>0, <3>1
      <4>2. h[s] = f[s] /\ f[s] = z
        BY <2>1, <3>1, <4>1 DEF GoesThrough
      <4> QED BY <3>1, <4>2 DEF GoesThrough
    <3>2. CASE s # {}
      <4> DEFINE t == s \ {pick(s)}
      <4>1. t \in SUBSET S /\ Cardinality(t) = Cardinality(s) - 1 /\ Cardinality(s) \in Nat
        BY <2>2, <3>2
      <4> HIDE DEF t
      <4>2. Cardinality(t) # n + 1
        BY <2>4, <4>1
      <4>3. h[t] = f[t]
        BY <4>1, <4>2
      <4>4. h[s] = g[<<pick(s), f[t]>>]
        <5>1. CASE Cardinality(s) = n + 1
          BY <5>1 DEF t
        <5>2. CASE Cardinality(s) # n + 1
          <6>1. Cardinality(s) <= n
            BY <2>4, <4>1, <5>2
          <6>2. f[s] = g[<<pick(s), f[t]>>]
            BY <2>1, <3>2, <6>1 DEF GoesThrough, t
          <6> QED BY <5>2, <6>2
        <5> QED BY <5>1, <5>2
      <4> HIDE DEF h
      <4> QED BY <3>2, <4>3, <4>4 DEF GoesThrough, t
    <3> QED BY <3>1, <3>2
  <2> HIDE DEF h
  <2> QED BY <2>3, <2>4
<1>3. Cardinality(S) \in Nat
  BY <1>0
<1> HIDE DEF T
<1>4. Cardinality(S) \in T
  BY <1>1, <1>2, <1>3, Induct
<1>5. PICK f \in [SUBSET S -> D] : Up(f, Cardinality(S))
  BY <1>4 DEF T
<1>6. \A s \in SUBSET S : Cardinality(s) <= Cardinality(S)
  BY FS_Subset
<1> QED BY <1>5, <1>6
-----------------------------------------------------------------------------
(* Steam *)

Fresh == [Lifetime : 0 .. MaxLife - 1, Speed : Speeds, X : 0 .. (X - 1) * Parts, Y : {0}]
Steam == [Lifetime : Nat, Speed : Nat, X : 0 .. (X - 1) * Parts, Y : 0 .. Y * Parts - 1]

\* Particles that have not been started have no life and lie in the left corner.
Steamed ==
    /\ particles \in [Coffee!Ids -> Steam] /\ born \in [Coffee!Ids -> Nat] /\ given \in [Coffee!Ids -> Int]
    /\ now \in Nat /\ lastTime \in {0, now} /\ started \in BOOLEAN
    /\ ~started => lastTime = 0 /\ \A i \in Coffee!Ids : born[i] = 0
    /\ \A i \in Coffee!Ids : born[i] <= lastTime
    /\ Coffee!AgesWithTheClock

\* The greatest and the least of two numbers.
LEMMA OfTwo ==
    ASSUME NEW a \in Int, NEW b \in Int
    PROVE  /\ Coffee!Max({a, b}) = IF a >= b THEN a ELSE b
           /\ Coffee!Min({a, b}) = IF a <= b THEN a ELSE b
<1> DEFINE hi == IF a >= b THEN a ELSE b
           lo == IF a <= b THEN a ELSE b
<1>1. /\ hi \in {a, b} /\ \A y \in {a, b} : hi >= y
      /\ \A x \in {a, b} : (\A y \in {a, b} : x >= y) => x = hi
  OBVIOUS
<1>2. /\ lo \in {a, b} /\ \A y \in {a, b} : lo <= y
      /\ \A x \in {a, b} : (\A y \in {a, b} : x <= y) => x = lo
  OBVIOUS
<1> HIDE DEF hi, lo
<1>3. Coffee!Max({a, b}) = hi
  BY <1>1 DEF Coffee!Max
<1>4. Coffee!Min({a, b}) = lo
  BY <1>2 DEF Coffee!Min
<1> QED BY <1>3, <1>4 DEF hi, lo

\* The assumption, conjunct by conjunct.
LEMMA CoffeeConstants ==
    /\ X \in Nat /\ X % 2 = 1 /\ X >= 3 /\ Y \in Nat \ {0} /\ MaxLife \in Nat \ {0}
    /\ Parts \in Nat \ {0} /\ ParticleCount \in Nat /\ Speeds \subseteq Nat /\ Deviates \subseteq Int
BY CoffeeAssumption

\* An odd width has a column in the middle.
LEMMA Odd == X - 1 = 2 * (X \div 2) /\ X \div 2 \in Nat /\ X \div 2 >= 1
BY CoffeeConstants

\* A new particle is within the width, wherever it would deviate to.
LEMMA NewSteam == Coffee!Fresh \subseteq Fresh
<1> DEFINE half == (X \div 2) * Parts
<1>1. Parts \in Nat /\ X \div 2 \in Nat
  BY Odd, CoffeeConstants
<1>2. half \in Nat /\ half + half = (X - 1) * Parts
  BY <1>1, Odd
<1>3. \A x \in Deviates : x \in Int
  BY CoffeeConstants
<1> HIDE DEF half
<1>4. ASSUME NEW x \in Deviates PROVE Coffee!Clamped(x, half) \in 0 .. half + half
  <2> DEFINE m == Coffee!Min({x, half})
             w == Coffee!Max({-half, m})
  <2>0. x \in Int /\ half \in Int /\ -half \in Int
    BY <1>2, <1>3
  <2>1. m = IF x <= half THEN x ELSE half
    BY <2>0, OfTwo
  <2>2. m \in Int /\ m <= half
    BY <2>0, <2>1
  <2> HIDE DEF m
  <2>3. w = IF -half >= m THEN -half ELSE m
    BY <2>0, <2>2, OfTwo
  <2>4. w \in -half .. half
    BY <1>2, <2>2, <2>3
  <2> HIDE DEF w
  <2>5. w + half \in 0 .. half + half
    BY <1>2, <2>4
  <2> QED BY <2>5 DEF Coffee!Clamped, w, m
<1> QED BY <1>2, <1>4 DEF Coffee!Fresh, Fresh, half

\* A new particle is at the bottom of the grid.
LEMMA FreshIsSteam == Fresh \subseteq Steam
<1>1. 0 \in 0 .. Y * Parts - 1
  <2>1. \A a, b \in Nat \ {0} : a * b >= 1
    OBVIOUS
  <2>2. Y * Parts >= 1 /\ Y * Parts \in Int
    BY <2>1, CoffeeConstants
  <2> QED BY <2>2
<1>2. Speeds \subseteq Nat /\ MaxLife \in Nat
  BY CoffeeConstants
<1>3. 0 .. MaxLife - 1 \subseteq Nat /\ {0} \subseteq 0 .. Y * Parts - 1
  BY <1>1, <1>2
<1> QED BY <1>2, <1>3 DEF Fresh, Steam

\* What a new particle has.
LEMMA FreshFields == \A f \in Fresh : f.Y = 0 /\ f.Lifetime \in Int /\ f.Speed \in Nat
<1> TAKE f \in Fresh
<1>1. f.Y \in {0} /\ f.Lifetime \in 0 .. MaxLife - 1 /\ f.Speed \in Speeds
  BY DEF Fresh
<1>2. f.Lifetime \in Int
  BY <1>1, CoffeeConstants
<1>3. f.Speed \in Nat
  BY <1>1, CoffeeConstants
<1> QED BY <1>1, <1>2, <1>3

\* Before the start nothing has risen.
LEMMA StartsSteamed == Coffee!ParticlesInit => Steamed
<1>1. /\ 0 \in 0 .. Y * Parts - 1 /\ 0 \in 0 .. (X - 1) * Parts
  <2>1. (\A a, b \in Nat \ {0} : a * b >= 1) /\ X - 1 \in Nat \ {0}
    BY CoffeeConstants
  <2>2. Y * Parts >= 1 /\ Y * Parts \in Int /\ (X - 1) * Parts >= 1 /\ (X - 1) * Parts \in Int
    BY <2>1, CoffeeConstants
  <2> QED BY <2>2
<1> SUFFICES ASSUME Coffee!ParticlesInit PROVE Steamed
  OBVIOUS
<1>2. [Lifetime |-> 0, Speed |-> 0, X |-> 0, Y |-> 0] \in Steam
  BY <1>1 DEF Steam
<1>3. particles \in [Coffee!Ids -> Steam]
  BY <1>2 DEF Coffee!ParticlesInit
<1>4. /\ born = [i \in Coffee!Ids |-> 0] /\ given = [i \in Coffee!Ids |-> 0]
      /\ now = 0 /\ lastTime = 0 /\ started = FALSE
  BY DEF Coffee!ParticlesInit
<1>5. Coffee!AgesWithTheClock
  BY <1>4 DEF Coffee!AgesWithTheClock
<1>6. born \in [Coffee!Ids -> Nat] /\ given \in [Coffee!Ids -> Int]
  BY <1>4
<1>7. \A i \in Coffee!Ids : born[i] = 0 /\ born[i] <= lastTime
  BY <1>4
<1>8. now \in Nat /\ lastTime \in {0, now} /\ started \in BOOLEAN
  BY <1>4
<1> QED BY <1>3, <1>5, <1>6, <1>7, <1>8, <1>4, Zenon DEF Steamed

\* Start gives every particle its place, its speed and its time.
LEMMA StartSteams ==
    ASSUME Steamed, NEW delta \in 0 .. MaxDelta, Coffee!Start(delta)
    PROVE  Steamed'
<1>1. PICK fresh \in [Coffee!Ids -> Coffee!Fresh] :
        particles' = fresh /\ given' = [i \in Coffee!Ids |-> fresh[i].Lifetime]
  BY DEF Coffee!Start
<1>2. /\ ~started /\ started' = TRUE /\ UNCHANGED <<lastTime, born>>
      /\ now' \in Nat /\ lastTime = 0
  BY DEF Coffee!Start, Steamed
<1>3. \A i \in Coffee!Ids : fresh[i] \in Fresh /\ fresh[i] \in Steam
  BY NewSteam, FreshIsSteam
<1>4. \A i \in Coffee!Ids : fresh[i].Y = 0 /\ fresh[i].Lifetime \in Int /\ fresh[i].Speed \in Nat
  BY <1>3, FreshFields
<1>5. particles' \in [Coffee!Ids -> Steam] /\ given' \in [Coffee!Ids -> Int]
  BY <1>1, <1>3, <1>4
<1>6. Coffee!AgesWithTheClock'
  BY <1>1, <1>2, <1>4 DEF Steamed, Coffee!AgesWithTheClock
<1> QED BY <1>2, <1>5, <1>6 DEF Steamed

\* A particle rises and ages by the time since the last update, or starts anew.
LEMMA UpdateSteams ==
    ASSUME Steamed, NEW delta \in 0 .. MaxDelta, Coffee!Update(delta)
    PROVE  Steamed'
<1> DEFINE d == now' - lastTime
           moved == [i \in Coffee!Ids |-> Coffee!nextPos(particles[i], now' - lastTime)]
           gone == {i \in Coffee!Ids : Coffee!Gone(moved[i])}
<1>1. PICK fresh \in [gone -> Coffee!Fresh] :
          /\ particles' = [i \in Coffee!Ids |-> IF i \in gone THEN fresh[i] ELSE moved[i]]
          /\ born' = [i \in Coffee!Ids |-> IF i \in gone THEN now' ELSE born[i]]
          /\ given' = [i \in Coffee!Ids |-> IF i \in gone THEN fresh[i].Lifetime ELSE given[i]]
  BY DEF Coffee!Update
<1>2. started /\ now' = now + delta /\ lastTime' = now' /\ UNCHANGED started /\ delta \in Nat
  BY DEF Coffee!Update
<1>3. now' \in Nat /\ lastTime \in Nat /\ lastTime <= now' /\ d \in Nat
  BY <1>2 DEF Steamed
<1>4. ASSUME NEW i \in Coffee!Ids, i \notin gone
      PROVE  /\ particles'[i] \in Steam /\ born'[i] = born[i] /\ given'[i] = given[i]
             /\ particles'[i].Lifetime = given[i] - (now' - born[i])
             /\ particles'[i].Y = particles'[i].Speed * (now' - born[i])
             /\ particles'[i].Lifetime > 0
  <2> DEFINE p == particles[i]
             age == lastTime - born[i]
  <2>1. p \in Steam /\ age \in Nat /\ given[i] \in Int /\ born[i] \in Nat
    BY <1>3 DEF Steamed
  <2>2. p.Lifetime = given[i] - age /\ p.Y = p.Speed * age
    BY <1>2 DEF Steamed, Coffee!AgesWithTheClock
  <2>3. moved[i] = [p EXCEPT !.Lifetime = p.Lifetime - d,
                             !.Y = IF p.Lifetime - d <= 0 THEN @ ELSE @ + p.Speed * d]
    BY <1>3 DEF Coffee!nextPos
  <2>4. particles'[i] = moved[i] /\ born'[i] = born[i] /\ given'[i] = given[i]
    BY <1>1, <1>4
  <2>5. /\ ~(moved[i].Y >= Y * Parts) /\ ~(moved[i].Lifetime <= 0)
    BY <1>4 DEF Coffee!Gone
  <2> HIDE DEF p, moved, d
  <2>6. /\ moved[i].Lifetime = p.Lifetime - d /\ moved[i].Speed = p.Speed /\ moved[i].X = p.X
        /\ moved[i].Y = IF p.Lifetime - d <= 0 THEN p.Y ELSE p.Y + p.Speed * d
        /\ DOMAIN moved[i] = DOMAIN p
    BY <2>1, <2>3 DEF Steam
  <2>7. p.Lifetime \in Nat /\ p.Speed \in Nat /\ p.Y \in Nat /\ p.X \in 0 .. (X - 1) * Parts
    BY <2>1 DEF Steam
  <2>8. p.Lifetime - d > 0 /\ moved[i].Lifetime \in Nat
    BY <1>3, <2>5, <2>6, <2>7
  <2>9. moved[i].Y = p.Y + p.Speed * d
    BY <2>6, <2>7, <2>8, <1>3
  <2>10. p.Speed * age + p.Speed * d = p.Speed * (age + d) /\ p.Speed * d \in Nat
    BY <2>1, <2>7, <1>3
  <2>11. age + d = now' - born[i]
    BY <1>3, <2>1 DEF d
  <2>12. moved[i].Y \in 0 .. Y * Parts - 1
    <3>1. Y * Parts \in Int
      BY CoffeeConstants
    <3> QED BY <2>5, <2>7, <2>9, <2>10, <3>1
  <2>13. moved[i] \in Steam
    <3>1. moved[i] = [Lifetime |-> moved[i].Lifetime, Speed |-> moved[i].Speed, X |-> moved[i].X,
                      Y |-> moved[i].Y]
      BY <2>1, <2>3 DEF Steam
    <3> QED BY <2>6, <2>7, <2>8, <2>12, <3>1 DEF Steam
  <2>14. moved[i].Lifetime = given[i] - (age + d)
    BY <1>3, <2>1, <2>2, <2>6
  <2> HIDE DEF age
  <2> QED BY <2>2, <2>4, <2>6, <2>8, <2>9, <2>10, <2>11, <2>13, <2>14
<1>5. ASSUME NEW i \in gone
      PROVE  /\ particles'[i] \in Steam /\ born'[i] = now' /\ given'[i] \in Int
             /\ particles'[i].Lifetime = given'[i] /\ particles'[i].Y = 0 /\ particles'[i].Speed \in Nat
  <2>1. fresh[i] \in Fresh /\ fresh[i] \in Steam /\ i \in Coffee!Ids
    BY NewSteam, FreshIsSteam
  <2>2. particles'[i] = fresh[i] /\ born'[i] = now' /\ given'[i] = fresh[i].Lifetime
    BY <1>1, <2>1
  <2> QED BY <2>1, <2>2, FreshFields
<1> HIDE DEF gone
<1>6. /\ DOMAIN particles' = Coffee!Ids /\ DOMAIN born' = Coffee!Ids /\ DOMAIN given' = Coffee!Ids
      /\ particles' = [i \in Coffee!Ids |-> particles'[i]] /\ born' = [i \in Coffee!Ids |-> born'[i]]
      /\ given' = [i \in Coffee!Ids |-> given'[i]]
  BY <1>1
<1>7. \A i \in Coffee!Ids : /\ particles'[i] \in Steam /\ born'[i] \in Nat /\ born'[i] <= now'
                            /\ given'[i] \in Int
  BY <1>3, <1>4, <1>5 DEF Steamed
<1>8. Coffee!AgesWithTheClock'
  <2>0. lastTime' = now' /\ lastTime' \in {0, now'}
    BY <1>2
  <2> SUFFICES ASSUME NEW i \in Coffee!Ids
               PROVE  /\ particles'[i].Lifetime = given'[i] - (now' - born'[i])
                      /\ particles'[i].Y = particles'[i].Speed * (now' - born'[i])
                      /\ now' - born'[i] = 0 \/ particles'[i].Lifetime > 0
    BY <2>0 DEF Coffee!AgesWithTheClock
  <2>1. CASE i \notin gone
    BY <1>4, <2>1
  <2>2. CASE i \in gone
    <3>1. now' - born'[i] = 0
      BY <1>3, <1>5, <2>2
    <3> QED BY <1>5, <2>2, <3>1
  <2> QED BY <2>1, <2>2
<1>9. particles' \in [Coffee!Ids -> Steam] /\ born' \in [Coffee!Ids -> Nat] /\ given' \in [Coffee!Ids -> Int]
  BY <1>6, <1>7
<1> QED BY <1>2, <1>3, <1>7, <1>8, <1>9 DEF Steamed

\* The life in a cell is a number.
LEMMA TotalIs == ASSUME Steamed, NEW ids \in SUBSET Coffee!Ids PROVE Coffee!Total(ids) \in Nat
<1> DEFINE F(f) == [s \in SUBSET ids |-> IF s = {} THEN 0
                      ELSE f[s \ {pick(s)}] + particles[pick(s)].Lifetime]
           G == CHOOSE f : f = F(f)
           g == [p \in ids \X Nat |-> p[2] + particles[p[1]].Lifetime]
<1>1. Coffee!Total(ids) = G[ids]
  BY DEF Coffee!Total, Coffee!FoldSet, Coffee!MapThenFoldSet, pick
<1>2. IsFiniteSet(ids)
  <2>1. ParticleCount \in Int
    BY CoffeeConstants
  <2>2. IsFiniteSet(1 .. ParticleCount)
    BY <2>1, FS_Interval
  <2> QED BY <2>2, FS_Subset DEF Coffee!Ids
<1>3. \A i \in ids : particles[i].Lifetime \in Nat
  BY DEF Steamed, Steam
<1>4. g \in [ids \X Nat -> Nat]
  BY <1>3
<1>5. ASSUME NEW f, NEW s \in SUBSET ids, s # {}, f[s \ {pick(s)}] \in Nat
      PROVE  g[<<pick(s), f[s \ {pick(s)}]>>] = f[s \ {pick(s)}] + particles[pick(s)].Lifetime
  <2>1. pick(s) \in ids
    BY <1>5 DEF pick
  <2> QED BY <1>5, <2>1
<1> HIDE DEF g
<1>6. \E f : f = F(f)
  <2>1. PICK f \in [SUBSET ids -> Nat] : \A s \in SUBSET ids : GoesThrough(f, g, 0, s)
    BY <1>2, <1>4, FoldExists
  <2>2. ASSUME NEW s \in SUBSET ids
        PROVE  f[s] = IF s = {} THEN 0 ELSE f[s \ {pick(s)}] + particles[pick(s)].Lifetime
    <3>1. s # {} => f[s \ {pick(s)}] \in Nat
      OBVIOUS
    <3> QED BY <2>1, <3>1, <1>5 DEF GoesThrough
  <2>3. f = F(f)
    BY <2>2
  <2> QED BY <2>3
<1>7. G = F(G)
  <2> HIDE DEF F
  <2> QED BY <1>6
<1> HIDE DEF G
<1>8. \A s \in SUBSET ids : G[s] = IF s = {} THEN 0 ELSE G[s \ {pick(s)}] + particles[pick(s)].Lifetime
  BY <1>7
<1> DEFINE T == {n \in Nat : \A s \in SUBSET ids : Cardinality(s) <= n => G[s] \in Nat}
<1>0. \A s \in SUBSET ids : Cardinality(s) \in Nat /\ (Cardinality(s) = 0 <=> s = {})
  BY <1>2, FS_Subset, FS_CardinalityType, FS_EmptySet
<1>9. 0 \in T
  <2>1. G[{}] = 0
    BY <1>8
  <2> QED BY <1>0, <2>1
<1>10. ASSUME NEW n \in Nat, n \in T PROVE n + 1 \in T
  <2> SUFFICES ASSUME NEW s \in SUBSET ids, Cardinality(s) <= n + 1 PROVE G[s] \in Nat
    OBVIOUS
  <2>0. G[s] = IF s = {} THEN 0 ELSE G[s \ {pick(s)}] + particles[pick(s)].Lifetime
    BY <1>8
  <2>1. CASE s = {}
    BY <2>0, <2>1
  <2>2. CASE s # {}
    <3>1. /\ pick(s) \in ids /\ s \ {pick(s)} \in SUBSET ids
          /\ Cardinality(s) \in Nat /\ Cardinality(s \ {pick(s)}) = Cardinality(s) - 1
      BY <1>2, <2>2, LessOne
    <3>2. G[s \ {pick(s)}] \in Nat
      BY <1>10, <3>1
    <3>3. particles[pick(s)].Lifetime \in Nat
      BY <1>3, <3>1
    <3> QED BY <2>0, <2>2, <3>2, <3>3
  <2> QED BY <2>1, <2>2
<1>11. Cardinality(ids) \in Nat
  BY <1>0
<1>12. Cardinality(ids) \in T
  <2> HIDE DEF T
  <2> QED BY <1>9, <1>10, <1>11, Induct
<1>13. G[ids] \in Nat
  BY <1>11, <1>12
<1> QED BY <1>1, <1>13

\* Dividing by a positive number.
LEMMA Quotient ==
    ASSUME NEW a \in Nat, NEW b \in Nat \ {0}, NEW k \in Nat, a < k * b
    PROVE  a \div b \in 0 .. k - 1
<1> DEFINE q == a \div b
<1>1. q \in Nat /\ b * q <= a
  OBVIOUS
<1> HIDE DEF q
<1>2. ASSUME q >= k PROVE FALSE
  <2>1. \A d, e \in Nat : d * e \in Nat
    OBVIOUS
  <2>2. b * (q - k) \in Nat
    BY <1>1, <1>2, <2>1
  <2>3. b * q = b * (q - k) + k * b
    BY <1>1
  <2> QED BY <1>1, <2>2, <2>3
<1> QED BY <1>1, <1>2 DEF q

\* A particle is over a column and below the top.
LEMMA InTheGrid ==
    ASSUME Steamed, NEW i \in Coffee!Ids
    PROVE  Coffee!Row(particles[i]) \in 0 .. Y - 1 /\ Coffee!Col(particles[i]) \in 0 .. X - 1
<1> DEFINE x == particles[i].X
           y == particles[i].Y
<1>1. x \in 0 .. (X - 1) * Parts /\ y \in 0 .. Y * Parts - 1
  BY DEF Steamed, Steam
<1>2. Parts \in Nat \ {0} /\ X \in Nat /\ X >= 3 /\ Y \in Nat
  BY CoffeeConstants
<1> HIDE DEF x, y
<1>3. y \div Parts \in 0 .. Y - 1
  <2>1. y \in Nat /\ y < Y * Parts
    BY <1>1, <1>2
  <2> QED BY <1>2, <2>1, Quotient
<1>4. (2 * x + Parts) \div (2 * Parts) \in 0 .. X - 1
  <2> DEFINE a == 2 * x + Parts
             b == 2 * Parts
  <2>1. x \in Nat /\ (X - 1) * Parts \in Nat /\ x <= (X - 1) * Parts
    BY <1>1, <1>2
  <2>2. X * (2 * Parts) = 2 * ((X - 1) * Parts) + 2 * Parts
    BY <1>2
  <2>3. a \in Nat /\ b \in Nat \ {0} /\ a < X * b
    BY <1>2, <2>1, <2>2
  <2> HIDE DEF a, b
  <2>4. a \div b \in 0 .. X - 1
    BY <1>2, <2>3, Quotient
  <2> QED BY <2>4 DEF a, b
<1> QED BY <1>3, <1>4 DEF Coffee!Row, Coffee!Col, x, y

\* A colour is a byte.
LEMMA GreenIs ==
    ASSUME Steamed, NEW row, NEW col \in 0 .. X - 1
    PROVE  Coffee!Green(row, col) \in 0 .. 255
<1> DEFINE t == (10000 * Coffee!Total(Coffee!At(row, col))) \div MaxLife
           m == Coffee!Max({1, t})
           life == Coffee!Min({9999, m})
           half == X \div 2
           w == Coffee!Max({half - col, col - half})
<1>1. t \in Int
  <2>1. Coffee!Total(Coffee!At(row, col)) \in Nat
    BY TotalIs DEF Coffee!At
  <2> QED BY <2>1, CoffeeConstants
<1> HIDE DEF t
<1>2. m \in Int /\ m >= 1
  BY <1>1, OfTwo
<1> HIDE DEF m
<1>3. life \in 1 .. 9999
  <2>1. life = IF 9999 <= m THEN 9999 ELSE m
    BY <1>2, OfTwo
  <2> HIDE DEF life
  <2> QED BY <1>2, <2>1
<1>4. half \in Nat /\ half >= 1 /\ X - 1 = 2 * half
  BY Odd
<1> HIDE DEF half
<1>5. half - col \in Int /\ col - half \in Int /\ w = IF half - col >= col - half THEN half - col ELSE col - half
  BY <1>4, OfTwo
<1>6. half - w \in 0 .. half
  <2> HIDE DEF w
  <2> QED BY <1>4, <1>5
<1> HIDE DEF life, w
<1> DEFINE a == (255 * life) * (half - w)
           b == 10000 * half
<1>7. a \in Nat /\ a < 256 * b /\ b \in Nat \ {0}
  <2>1. \A d \in Nat, e, f \in Nat : e <= f => d * e \in Nat /\ d * e <= d * f
    OBVIOUS
  <2>2. 255 * life \in Nat /\ half - w \in Nat /\ half - w <= half
    BY <1>3, <1>4, <1>6
  <2>3. a \in Nat /\ a <= (255 * life) * half
    BY <1>4, <2>1, <2>2
  <2>4. (255 * life) * half <= (255 * 9999) * half
    BY <1>3, <1>4, <2>1
  <2>5. (255 * 9999) * half < 256 * (10000 * half)
    BY <1>4
  <2> HIDE DEF a
  <2> QED BY <1>4, <2>2, <2>3, <2>4, <2>5
<1>8. a \div b \in 0 .. 256 - 1
  <2> HIDE DEF a, b
  <2> QED BY <1>7, Quotient
<1> QED BY <1>8 DEF Coffee!Green, a, b, life, half, w, m, t

\* Where a particle is, something is drawn.
LEMMA SomethingDrawn ==
    ASSUME Steamed, NEW i \in Coffee!Ids
    PROVE  Coffee!Render[Y - Coffee!Row(particles[i])][Coffee!Col(particles[i]) + 1] # " "
<1> DEFINE row == Coffee!Row(particles[i])
           col == Coffee!Col(particles[i])
           line(r) == [c \in 1 .. X |-> Coffee!Glyph(r - 1, c - 1)]
           rows == [r \in 1 .. Y |-> line(r)]
<1>1. row \in 0 .. Y - 1 /\ col \in 0 .. X - 1 /\ Y \in Nat /\ X \in Nat
  BY InTheGrid, CoffeeConstants
<1>2. i \in Coffee!At(row, col)
  BY DEF Coffee!At
<1>3. Coffee!Glyph(row, col) # " "
  BY <1>2 DEF Coffee!Glyph
<1> HIDE DEF row, col
<1>4. Coffee!Render = [n \in 1 .. Len(rows) |-> rows[(Len(rows) - n) + 1]]
  BY DEF Coffee!Render, Coffee!Reverse
<1>5. Len(rows) = Y
  <2> HIDE DEF line
  <2> QED BY <1>1
<1>6. Y - row \in 1 .. Len(rows) /\ (Len(rows) - (Y - row)) + 1 = row + 1 /\ row + 1 \in 1 .. Y
  BY <1>1, <1>5
<1>7. Coffee!Render[Y - row] = rows[row + 1]
  <2> HIDE DEF rows
  <2> QED BY <1>4, <1>6
<1>8. rows[row + 1] = line(row + 1)
  <2> HIDE DEF line
  <2> QED BY <1>6
<1>9. col + 1 \in 1 .. X /\ row + 1 - 1 = row /\ col + 1 - 1 = col
  BY <1>1
<1>10. line(row + 1)[col + 1] = Coffee!Glyph(row, col)
  <2>1. \A r : \A c \in 1 .. X : line(r)[c] = Coffee!Glyph(r - 1, c - 1)
    OBVIOUS
  <2> HIDE DEF line
  <2>2. \A r, c : c \in 1 .. X /\ r - 1 = row /\ c - 1 = col => line(r)[c] = Coffee!Glyph(row, col)
    BY <2>1
  <2> DEFINE r1 == row + 1
             c1 == col + 1
  <2>3. c1 \in 1 .. X /\ r1 - 1 = row /\ c1 - 1 = col
    BY <1>1
  <2> HIDE DEF r1, c1
  <2>4. line(r1)[c1] = Coffee!Glyph(row, col)
    BY <2>2, <2>3
  <2> QED BY <2>4 DEF r1, c1
<1> QED BY <1>3, <1>7, <1>8, <1>10 DEF row, col

\* Every particle has a cell in the grid, with a glyph and a green that is a byte.
LEMMA SteamIsDrawn == Steamed => Coffee!EveryParticleDrawn
<1> SUFFICES ASSUME Steamed, NEW i \in Coffee!Ids
    PROVE  /\ Coffee!Row(particles[i]) \in 0 .. Y - 1 /\ Coffee!Col(particles[i]) \in 0 .. X - 1
           /\ Coffee!Green(Coffee!Row(particles[i]), Coffee!Col(particles[i])) \in 0 .. 255
           /\ Coffee!Render[Y - Coffee!Row(particles[i])][Coffee!Col(particles[i]) + 1] # " "
  BY DEF Coffee!EveryParticleDrawn
<1> QED BY InTheGrid, GreenIs, SomethingDrawn
-----------------------------------------------------------------------------
(* What renderers show *)

\* What the renderer and the clients show does not depend on the steam.
LEMMA StillSame == Painted /\ Seen /\ UNCHANGED vars => Painted' /\ Seen'
<1> SUFFICES ASSUME Painted, Seen, UNCHANGED vars PROVE Painted' /\ Seen'
  OBVIOUS
<1>1. /\ UNCHANGED <<game, over, zs, buffer, previous, overlap, out, pc>>
      /\ UNCHANGED <<view, sockets, welcomes, hello, left, reset, stalled, nth>>
  BY DEF vars, screen, send, ends, history
<1>2. Painted'
  BY <1>1, StillPainted DEF Painted
<1>3. Seen'
  BY <1>1, StillSeen DEF Seen
<1> QED BY <1>2, <1>3

\* For any window, any number of clients and of particles, and any speeds: whatever is sent or
\* shown is made of drawn cells; things are drawn by their height in whatever order they were
\* added; a game that is over is shown whole, unless the two goroutines have rendered or sent at
\* the same time; every particle is drawn in the grid, in a colour that is a byte, and has risen
\* and aged by the time that has passed.
THEOREM AlwaysDrawnAsIs == AllSpec => []DrawnAsIs
<1> DEFINE AsIs == ServedAlone /\ Painted /\ Seen /\ (HasSteam => Steamed)
<1>1. AllInit => AsIs
  <2>1. NoSteam => ~HasSteam
    BY DEF NoSteam, HasSteam
  <2>2. Init => ServedAlone
    BY StartsServed DEF ServedAlone
  <2> QED BY <2>1, <2>2, StartsPainted, StartsSeen, StartsSteamed DEF AllInit
<1>2. AsIs /\ [Game \/ Cup]_<<vars, steam>> => AsIs'
  <2> SUFFICES ASSUME AsIs, [Game \/ Cup]_<<vars, steam>> PROVE AsIs'
    OBVIOUS
  <2>1. CASE Game
    <3>1. Next /\ ~HasSteam /\ ~HasSteam'
      BY <2>1 DEF Game, steam, HasSteam
    <3> QED BY <3>1, NextServes, NextPaints, NextSeen
  <2>2. ASSUME UNCHANGED vars PROVE ServedAlone' /\ Painted' /\ Seen'
    BY <2>2, NextServes, StillSame
  <2>3. CASE Cup
    <3>1. HasSteam /\ UNCHANGED vars /\ Coffee!ParticlesNext
      BY <2>3 DEF Cup
    <3>2. Steamed'
      BY <3>1, StartSteams, UpdateSteams DEF Coffee!ParticlesNext
    <3> QED BY <2>2, <3>1, <3>2
  <2>4. CASE UNCHANGED <<vars, steam>>
    <3>1. UNCHANGED vars /\ UNCHANGED <<particles, lastTime, now, started, born, given>>
      BY <2>4 DEF steam
    <3>2. HasSteam' = HasSteam /\ (Steamed => Steamed')
      BY <3>1 DEF HasSteam, Steamed, Coffee!AgesWithTheClock
    <3> QED BY <2>2, <3>1, <3>2
  <2> QED BY <2>1, <2>3, <2>4
<1>3. AsIs => DrawnAsIs
  <2> SUFFICES ASSUME AsIs PROVE DrawnAsIs
    OBVIOUS
  <2>1. ClientsInStep
    BY ServedShows DEF ClientsServed
  <2>2. TypeOK /\ EndIsShown /\ DrawnByHeight
    BY <2>1, PaintedSeenTyped, EndFollows DEF Painted
  <2>3. HasSteam => Coffee!EveryParticleDrawn /\ Coffee!AgesWithTheClock
    BY SteamIsDrawn DEF Steamed
  <2> QED BY <2>2, <2>3 DEF DrawnAsIs, EveryParticleDrawn, AgesWithTheClock
<1> QED BY <1>1, <1>2, <1>3, PTL DEF AllSpec
-----------------------------------------------------------------------------
(* Folds *)

\* What holds of nothing, and of every set that it holds of without one element, holds of all.
LEMMA OneByOne ==
    ASSUME NEW S, IsFiniteSet(S), NEW G, {} \in G,
           \A s \in SUBSET S : s # {} /\ s \ {pick(s)} \in G => s \in G
    PROVE  SUBSET S \subseteq G
<1> DEFINE T == {n \in Nat : \A s \in SUBSET S : Cardinality(s) <= n => s \in G}
<1>0. \A s \in SUBSET S : Cardinality(s) \in Nat /\ (Cardinality(s) = 0 <=> s = {})
  BY FS_Subset, FS_CardinalityType, FS_EmptySet
<1>1. 0 \in T
  <2>1. \A s \in SUBSET S : Cardinality(s) <= 0 => s = {}
    BY <1>0
  <2> QED BY <2>1
<1>2. ASSUME NEW n \in Nat, n \in T PROVE n + 1 \in T
  <2> SUFFICES ASSUME NEW s \in SUBSET S, Cardinality(s) <= n + 1, s # {} PROVE s \in G
    OBVIOUS
  <2>1. s \ {pick(s)} \in SUBSET S /\ Cardinality(s \ {pick(s)}) = Cardinality(s) - 1
    BY LessOne
  <2>2. Cardinality(s \ {pick(s)}) <= n
    BY <1>0, <2>1
  <2>3. s \ {pick(s)} \in G
    BY <1>2, <2>1, <2>2
  <2> QED BY <2>3
<1>3. Cardinality(S) \in T
  <2> HIDE DEF T
  <2> QED BY <1>0, <1>1, <1>2, Induct
<1> QED BY <1>3, FS_Subset

\* How far FoldSet has come with f when it has gone through s, from base.
Goes(h, f, base, S) ==
    h = [s \in SUBSET S |-> IF s = {} THEN base ELSE f[<<h[s \ {pick(s)}], pick(s)>>]]
FoldOf(f, base, S) == FoldSet(LAMBDA d, acc : f[<<acc, d>>], base, S)

\* FoldSet is what going through all of the set comes to.
LEMMA FoldOfIs ==
    ASSUME NEW f, NEW base, NEW S
    PROVE  FoldOf(f, base, S) = (CHOOSE h : Goes(h, f, base, S))[S]
BY DEF FoldOf, FoldSet, MapThenFoldSet, Goes, pick

\* There is one way to go through a set.
LEMMA GoesOneWay ==
    ASSUME NEW S, IsFiniteSet(S), NEW f, NEW base,
           NEW h, Goes(h, f, base, S), NEW k, Goes(k, f, base, S)
    PROVE  h = k
<1> DEFINE G == {s \in SUBSET S : h[s] = k[s]}
<1>1. \A s \in SUBSET S : /\ h[s] = IF s = {} THEN base ELSE f[<<h[s \ {pick(s)}], pick(s)>>]
                          /\ k[s] = IF s = {} THEN base ELSE f[<<k[s \ {pick(s)}], pick(s)>>]
  BY DEF Goes
<1>2. {} \in G
  BY <1>1
<1>3. \A s \in SUBSET S : s # {} /\ s \ {pick(s)} \in G => s \in G
  BY <1>1
<1>4. SUBSET S \subseteq G
  <2> HIDE DEF G
  <2> QED BY <1>2, <1>3, OneByOne
<1>5. \A s \in SUBSET S : h[s] = k[s]
  BY <1>4
<1>6. h = [s \in SUBSET S |-> h[s]] /\ k = [s \in SUBSET S |-> k[s]]
  BY DEF Goes
<1> QED BY <1>5, <1>6

\* Steps that never leave D, and what they come to.
Stays(f, S, D) == \A acc \in D, d \in S : f[<<acc, d>>] \in D
Comes(f, base, S, D) ==
    \E h \in [SUBSET S -> D] : Goes(h, f, base, S) /\ FoldOf(f, base, S) = h[S]

\* A fold that never leaves D is what it has come to.
LEMMA FoldComesTo ==
    ASSUME NEW S, IsFiniteSet(S), NEW D, NEW base \in D, NEW f, Stays(f, S, D)
    PROVE  Comes(f, base, S, D)
<1> DEFINE g == [p \in S \X D |-> f[<<p[2], p[1]>>]]
<1>1. g \in [S \X D -> D]
  BY DEF Stays
<1>2. \A d \in S, acc \in D : g[<<d, acc>>] = f[<<acc, d>>]
  OBVIOUS
<1> HIDE DEF g
<1>3. PICK h \in [SUBSET S -> D] : \A s \in SUBSET S : GoesThrough(h, g, base, s)
  BY <1>1, FoldExists
<1>4. ASSUME NEW s \in SUBSET S
      PROVE  h[s] = IF s = {} THEN base ELSE f[<<h[s \ {pick(s)}], pick(s)>>]
  <2>1. s # {} => pick(s) \in S /\ h[s \ {pick(s)}] \in D
    <3>1. s # {} => pick(s) \in s /\ s \ {pick(s)} \in SUBSET S
      BY LessOne
    <3> QED BY <3>1
  <2> QED BY <1>2, <1>3, <2>1 DEF GoesThrough
<1>5. Goes(h, f, base, S)
  BY <1>4 DEF Goes
<1>6. h = CHOOSE k : Goes(k, f, base, S)
  BY <1>5, GoesOneWay
<1> QED BY <1>5, <1>6, FoldOfIs DEF Comes
-----------------------------------------------------------------------------
(* The board of a game *)

\* A board has as many cells as rows times columns.
LEMMA Squares == IsFiniteSet(Cells) /\ Cardinality(Cells) = Height * Width
<1>1. /\ Height - 1 \in Int /\ Width - 1 \in Int /\ Height \in Nat \ {0} /\ Width \in Nat \ {0}
  BY BoardAssumption
<1>2. /\ IsFiniteSet(0 .. Height - 1) /\ Cardinality(0 .. Height - 1) = Height
      /\ IsFiniteSet(0 .. Width - 1) /\ Cardinality(0 .. Width - 1) = Width
  BY <1>1, FS_Interval
<1> DEFINE A == 0 .. Height - 1
           B == 0 .. Width - 1
<1>3. IsFiniteSet(A) /\ IsFiniteSet(B) /\ Cardinality(A) = Height /\ Cardinality(B) = Width
  BY <1>2
<1>4. Cells = A \X B
  BY DEF Cells
<1> HIDE DEF A, B
<1>5. IsFiniteSet(A \X B) /\ Cardinality(A \X B) = Cardinality(A) * Cardinality(B)
  BY <1>3, FS_Product
<1> QED BY <1>3, <1>4, <1>5

\* Neighbours touch, and neighbours are neighbours of each other.
LEMMA Neighbours ==
    ASSUME NEW c \in Cells
    PROVE  /\ Touching(c) = Adjacent(c) /\ Adjacent(c) \subseteq Cells
           /\ \A d \in Cells : d \in Touching(c) <=> c \in Touching(d)
<1>1. PICK r \in 0 .. Height - 1, k \in 0 .. Width - 1 : c = <<r, k>>
  BY DEF Cells
<1>2. r \in Int /\ k \in Int /\ c[1] = r /\ c[2] = k
  BY <1>1, BoardAssumption
<1>3. ASSUME NEW d \in Cells PROVE d \in Touching(c) <=> d \in Adjacent(c)
  <2>1. PICK x \in 0 .. Height - 1, y \in 0 .. Width - 1 : d = <<x, y>>
    BY DEF Cells
  <2>2. x \in Int /\ y \in Int
    BY <2>1, BoardAssumption
  <2>3. d \in Touching(c) <=> d # c /\ x - r \in -1 .. 1 /\ y - k \in -1 .. 1
    BY <1>2, <2>1 DEF Touching
  <2>4. d \in Adjacent(c) <=> \E e \in dirs : x = r + e[1] /\ y = k + e[2]
    BY <1>2, <2>1 DEF Adjacent
  <2> DEFINE Hit(e) == x = r + e[1] /\ y = k + e[2]
  <2>5. (\E e \in dirs : Hit(e))
          <=> \/ Hit(<<-1, 0>>) \/ Hit(<<1, 0>>) \/ Hit(<<-1, 1>>) \/ Hit(<<0, 1>>)
              \/ Hit(<<1, 1>>) \/ Hit(<<-1, -1>>) \/ Hit(<<0, -1>>) \/ Hit(<<1, -1>>)
    <3> HIDE DEF Hit
    <3> QED BY DEF dirs
  <2>7. \A u \in Int, v \in Int : u - v \in -1 .. 1 <=> u = v + 1 \/ u = v + -1 \/ u = v + 0
    OBVIOUS
  <2>8. r + 0 = r /\ k + 0 = k
    BY <1>2
  <2>9. /\ x - r \in -1 .. 1 <=> x = r + 1 \/ x = r + -1 \/ x = r
        /\ y - k \in -1 .. 1 <=> y = k + 1 \/ y = k + -1 \/ y = k
    BY <1>2, <2>2, <2>7, <2>8
  <2>6. d # c <=> x # r \/ y # k
    BY <1>1, <2>1
  <2>10. d \in Adjacent(c)
           <=> \/ (x = r + -1 /\ y = k) \/ (x = r + 1 /\ y = k) \/ (x = r + -1 /\ y = k + 1)
               \/ (x = r /\ y = k + 1) \/ (x = r + 1 /\ y = k + 1)
               \/ (x = r + -1 /\ y = k + -1) \/ (x = r /\ y = k + -1)
               \/ (x = r + 1 /\ y = k + -1)
    <3>1. /\ Hit(<<-1, 0>>) <=> x = r + -1 /\ y = k
          /\ Hit(<<1, 0>>) <=> x = r + 1 /\ y = k
          /\ Hit(<<-1, 1>>) <=> x = r + -1 /\ y = k + 1
          /\ Hit(<<0, 1>>) <=> x = r /\ y = k + 1
          /\ Hit(<<1, 1>>) <=> x = r + 1 /\ y = k + 1
          /\ Hit(<<-1, -1>>) <=> x = r + -1 /\ y = k + -1
          /\ Hit(<<0, -1>>) <=> x = r /\ y = k + -1
          /\ Hit(<<1, -1>>) <=> x = r + 1 /\ y = k + -1
      BY <2>8
    <3>2. d \in Adjacent(c) <=> \E e \in dirs : Hit(e)
      BY <2>4
    <3> HIDE DEF Hit
    <3> QED BY <2>5, <3>1, <3>2, Zenon
  <2>11. r + 1 # r /\ r + -1 # r /\ k + 1 # k /\ k + -1 # k
    BY <1>2
  <2> DEFINE touching == d \in Touching(c)
             adjacent == d \in Adjacent(c)
             up == x = r + -1
             down == x = r + 1
             lef == y = k + -1
             rig == y = k + 1
  <2>12. touching <=> (~(x = r) \/ ~(y = k)) /\ (down \/ up \/ x = r) /\ (rig \/ lef \/ y = k)
    BY <2>3, <2>6, <2>9
  <2>13. adjacent <=> \/ (up /\ y = k) \/ (down /\ y = k) \/ (up /\ rig) \/ (x = r /\ rig)
                      \/ (down /\ rig) \/ (up /\ lef) \/ (x = r /\ lef) \/ (down /\ lef)
    BY <2>10, Zenon
  <2>14. ~(down /\ x = r) /\ ~(up /\ x = r) /\ ~(rig /\ y = k) /\ ~(lef /\ y = k)
    BY <2>11
  <2>15. touching <=> adjacent
    <3> HIDE DEF touching, adjacent, up, down, lef, rig
    <3> QED BY <2>12, <2>13, <2>14, Zenon
  <2> QED BY <2>15
<1>4. Touching(c) \subseteq Cells /\ Adjacent(c) \subseteq Cells
  BY DEF Touching, Adjacent
<1>5. ASSUME NEW d \in Cells PROVE d \in Touching(c) <=> c \in Touching(d)
  <2>1. PICK x \in 0 .. Height - 1, y \in 0 .. Width - 1 : d = <<x, y>>
    BY DEF Cells
  <2>2. x \in Int /\ y \in Int /\ d[1] = x /\ d[2] = y
    BY <2>1, BoardAssumption
  <2> QED BY <1>2, <2>2 DEF Touching
<1> QED BY <1>3, <1>4, <1>5

\* A cell with no bomb on or about it.
Clear(B, c) == c \notin B /\ Touching(c) \cap B = {}

\* What count tells: whether a cell is clear.
LEMMA CountsBombs ==
    ASSUME NEW c \in Cells, NEW B
    PROVE  count(c, B) # 0 \/ c \in B <=> ~Clear(B, c)
<1>1. Adjacent(c) = Touching(c) /\ IsFiniteSet(Adjacent(c))
  BY Neighbours, Squares, FS_Subset
<1> DEFINE S == {d \in Adjacent(c) : d \in B}
<1>2. IsFiniteSet(S)
  BY <1>1, FS_Subset
<1>3. Cardinality(S) = 0 <=> S = {}
  BY <1>2, FS_EmptySet
<1>4. c \notin B => count(c, B) = Cardinality(S)
  BY DEF count, Quantify
<1> QED BY <1>1, <1>3, <1>4 DEF Clear
-----------------------------------------------------------------------------
(* Revealing *)

Turns == (SUBSET Cells) \X Cells
Opened(f, B, turn) ==
    IF turn[2] \in turn[1] THEN turn[1]
    ELSE IF count(turn[2], B) # 0 \/ turn[2] \in B THEN turn[1] \cup {turn[2]}
    ELSE FoldOf(f, turn[1] \cup {turn[2]}, Adjacent(turn[2]))
Reveals(f, B) == f = [turn \in Turns |-> Opened(f, B, turn)]

\* The recursion of revealSpot.
LEMMA SpotIs == ASSUME NEW B PROVE revealSpot(B) = CHOOSE f : Reveals(f, B)
BY DEF revealSpot, Reveals, Opened, FoldOf, Turns

\* One turn of it, in terms of what touches what.
LEMMA OpenedIs ==
    ASSUME NEW f, NEW B, NEW R \in SUBSET Cells, NEW c \in Cells
    PROVE  Opened(f, B, <<R, c>>) = IF c \in R THEN R
                                    ELSE IF ~Clear(B, c) THEN R \cup {c}
                                    ELSE FoldOf(f, R \cup {c}, Touching(c))
BY CountsBombs, Neighbours DEF Opened

Above(R) == {Q \in SUBSET Cells : R \subseteq Q}
Hidden(turn) == Cardinality(Cells \ turn[1])

\* The turns that a turn takes find fewer cells hidden.
LEMMA HiddenIs ==
    ASSUME NEW R \in SUBSET Cells
    PROVE  /\ Cardinality(Cells \ R) \in Nat
           /\ \A c \in Cells : Cardinality(Cells \ R) = 0 => c \in R
           /\ \A c \in Cells \ R : \A Q \in Above(R \cup {c}) :
                Cardinality(Cells \ Q) + 1 <= Cardinality(Cells \ R)
<1>1. IsFiniteSet(Cells \ R)
  BY Squares, FS_Subset
<1>2. Cardinality(Cells \ R) \in Nat /\ (Cardinality(Cells \ R) = 0 => Cells \ R = {})
  BY <1>1, FS_CardinalityType, FS_EmptySet
<1>3. ASSUME NEW c \in Cells \ R, NEW Q \in Above(R \cup {c})
      PROVE  Cardinality(Cells \ Q) + 1 <= Cardinality(Cells \ R)
  <2> DEFINE H == (Cells \ R) \ {c}
  <2>1. IsFiniteSet(H) /\ Cardinality(H) = Cardinality(Cells \ R) - 1
    BY <1>1, FS_RemoveElement
  <2>2. Cells \ Q \in SUBSET H
    BY DEF Above
  <2> HIDE DEF H
  <2>3. IsFiniteSet(Cells \ Q) /\ Cardinality(Cells \ Q) <= Cardinality(H)
    BY <2>1, <2>2, FS_Subset
  <2>4. Cardinality(Cells \ Q) \in Nat
    BY <2>3, FS_CardinalityType
  <2> QED BY <1>2, <2>1, <2>3, <2>4
<1> QED BY <1>2, <1>3

\* A fold over steps that only add cells.
Adds(f, base, S) == \A acc \in Above(base), d \in S : f[<<acc, d>>] \in Above(acc)

\* Such a fold comes to more cells.
LEMMA FoldAdds ==
    ASSUME NEW base \in SUBSET Cells, NEW S \in SUBSET Cells, NEW f, Adds(f, base, S)
    PROVE  Comes(f, base, S, Above(base))
<1>1. base \in Above(base) /\ IsFiniteSet(S)
  BY Squares, FS_Subset DEF Above
<1>2. Stays(f, S, Above(base))
  BY DEF Above, Stays, Adds
<1> QED BY <1>1, <1>2, FoldComesTo

\* Functions that agree above the base fold alike.
LEMMA FoldSame ==
    ASSUME NEW base \in SUBSET Cells, NEW S \in SUBSET Cells, NEW f, NEW g,
           Adds(f, base, S), \A acc \in Above(base), d \in S : g[<<acc, d>>] = f[<<acc, d>>]
    PROVE  FoldOf(f, base, S) = FoldOf(g, base, S)
<1>0. Adds(g, base, S)
  BY DEF Adds
<1>1. PICK h \in [SUBSET S -> Above(base)] : Goes(h, f, base, S) /\ FoldOf(f, base, S) = h[S]
  <2>1. Comes(f, base, S, Above(base))
    BY FoldAdds
  <2> QED BY <2>1 DEF Comes
<1>2. PICK k \in [SUBSET S -> Above(base)] : Goes(k, g, base, S) /\ FoldOf(g, base, S) = k[S]
  <2>1. Comes(g, base, S, Above(base))
    BY <1>0, FoldAdds
  <2> QED BY <2>1 DEF Comes
<1>3. \A s \in SUBSET S : s # {} => pick(s) \in S /\ s \ {pick(s)} \in SUBSET S
  BY Squares, FS_Subset, LessOne
<1>4. \A s \in SUBSET S : h[s] = IF s = {} THEN base ELSE f[<<h[s \ {pick(s)}], pick(s)>>]
  BY <1>1 DEF Goes
<1>5. ASSUME NEW s \in SUBSET S
      PROVE  h[s] = IF s = {} THEN base ELSE g[<<h[s \ {pick(s)}], pick(s)>>]
  <2>1. s # {} => h[s \ {pick(s)}] \in Above(base)
    BY <1>3
  <2> QED BY <1>3, <1>4, <2>1
<1>6. Goes(h, g, base, S)
  BY <1>5 DEF Goes
<1>7. IsFiniteSet(S)
  BY Squares, FS_Subset
<1>8. h = k
  BY <1>2, <1>6, <1>7, GoesOneWay
<1> QED BY <1>1, <1>2, <1>8

\* A turn depends on the turns with more cells revealed only.
LEMMA OpenedSame ==
    ASSUME NEW B, NEW R \in SUBSET Cells, NEW c \in Cells, NEW f, NEW g,
           Adds(f, R \cup {c}, Cells),
           c \notin R => \A acc \in Above(R \cup {c}), d \in Cells : g[<<acc, d>>] = f[<<acc, d>>]
    PROVE  /\ Opened(f, B, <<R, c>>) = Opened(g, B, <<R, c>>)
           /\ Opened(f, B, <<R, c>>) \in Above(R)
<1> DEFINE base == R \cup {c}
           S == Touching(c)
<1>1. base \in SUBSET Cells /\ S \in SUBSET Cells
  BY Neighbours
<1>2. Adds(f, base, S)
  BY <1>1 DEF Adds
<1>3. c \notin R => \A acc \in Above(base), d \in S : g[<<acc, d>>] = f[<<acc, d>>]
  BY <1>1
<1>4. R \in Above(R) /\ base \in Above(R) /\ Above(base) \subseteq Above(R)
  BY <1>1 DEF Above
<1> HIDE DEF base, S
<1>5. FoldOf(f, base, S) \in Above(base)
  <2>1. PICK h \in [SUBSET S -> Above(base)] : Goes(h, f, base, S) /\ FoldOf(f, base, S) = h[S]
    <3>1. Comes(f, base, S, Above(base))
      BY <1>1, <1>2, FoldAdds
    <3> QED BY <3>1 DEF Comes
  <2> QED BY <2>1
<1>6. c \notin R => FoldOf(f, base, S) = FoldOf(g, base, S)
  BY <1>1, <1>2, <1>3, FoldSame
<1>7. /\ Opened(f, B, <<R, c>>) = IF c \in R THEN R ELSE IF ~Clear(B, c) THEN base
                                  ELSE FoldOf(f, base, S)
      /\ Opened(g, B, <<R, c>>) = IF c \in R THEN R ELSE IF ~Clear(B, c) THEN base
                                  ELSE FoldOf(g, base, S)
  BY OpenedIs DEF base, S
<1> QED BY <1>4, <1>5, <1>6, <1>7

\* There is a function that reveals: it is built up by the number of hidden cells.
LEMMA RevealsExists == ASSUME NEW B PROVE \E f : Reveals(f, B)
<1> DEFINE Grows(f) == \A R \in SUBSET Cells, c \in Cells : f[<<R, c>>] \in Above(R)
           Up(f, n) == \A R \in SUBSET Cells, c \in Cells :
                         Cardinality(Cells \ R) <= n => f[<<R, c>>] = Opened(f, B, <<R, c>>)
           T == {n \in Nat : \E f : Grows(f) /\ Up(f, n)}
<1>0. \A R \in SUBSET Cells : Cardinality(Cells \ R) \in Nat
  BY HiddenIs
<1>1. 0 \in T
  <2> DEFINE f == [turn \in Turns |-> turn[1]]
  <2>1. \A R \in SUBSET Cells, c \in Cells : f[<<R, c>>] = R
    BY DEF Turns
  <2> HIDE DEF f
  <2>2. Grows(f)
    BY <2>1 DEF Above
  <2>3. ASSUME NEW R \in SUBSET Cells, NEW c \in Cells, Cardinality(Cells \ R) <= 0
        PROVE  f[<<R, c>>] = Opened(f, B, <<R, c>>)
    <3>1. Cardinality(Cells \ R) = 0
      BY <1>0, <2>3
    <3>2. c \in R
      BY <3>1, HiddenIs
    <3> QED BY <2>1, <3>2, OpenedIs
  <2> QED BY <2>2, <2>3
<1>2. ASSUME NEW n \in Nat, n \in T PROVE n + 1 \in T
  <2>1. PICK f : Grows(f) /\ Up(f, n)
    BY <1>2
  <2> DEFINE g == [turn \in Turns |-> IF Cardinality(Cells \ turn[1]) = n + 1
                                      THEN Opened(f, B, turn) ELSE f[turn]]
  <2>2. ASSUME NEW R \in SUBSET Cells, NEW c \in Cells
        PROVE  g[<<R, c>>] = IF Cardinality(Cells \ R) = n + 1 THEN Opened(f, B, <<R, c>>)
                             ELSE f[<<R, c>>]
    BY DEF Turns
  <2> HIDE DEF g
  <2>3. \A R \in SUBSET Cells, c \in Cells : Adds(f, R \cup {c}, Cells)
    BY <2>1 DEF Above, Adds
  <2>4. \A R \in SUBSET Cells, c \in Cells : Opened(f, B, <<R, c>>) \in Above(R)
    BY <2>3, OpenedSame
  <2>5. Grows(g)
    BY <2>1, <2>2, <2>4
  <2>6. ASSUME NEW R \in SUBSET Cells, NEW c \in Cells, Cardinality(Cells \ R) <= n + 1
        PROVE  g[<<R, c>>] = Opened(g, B, <<R, c>>)
    <3>1. ASSUME c \notin R, NEW acc \in Above(R \cup {c}), NEW d \in Cells
          PROVE  g[<<acc, d>>] = f[<<acc, d>>]
      <4>1. acc \in SUBSET Cells /\ Cardinality(Cells \ acc) + 1 <= Cardinality(Cells \ R)
        BY <3>1, HiddenIs DEF Above
      <4>2. Cardinality(Cells \ acc) # n + 1
        <5>1. Cardinality(Cells \ acc) \in Nat /\ Cardinality(Cells \ R) \in Nat
          BY <1>0, <4>1
        <5> QED BY <2>6, <4>1, <5>1
      <4> QED BY <2>2, <4>1, <4>2
    <3>2. Opened(f, B, <<R, c>>) = Opened(g, B, <<R, c>>)
      BY <2>3, <3>1, OpenedSame
    <3>3. g[<<R, c>>] = Opened(f, B, <<R, c>>)
      <4>1. CASE Cardinality(Cells \ R) = n + 1
        BY <2>2, <4>1
      <4>2. CASE Cardinality(Cells \ R) # n + 1
        <5>1. Cardinality(Cells \ R) <= n
          BY <1>0, <2>6, <4>2
        <5> QED BY <2>1, <2>2, <4>2, <5>1
      <4> QED BY <4>1, <4>2
    <3> QED BY <3>2, <3>3
  <2>7. Up(g, n + 1)
    BY <2>6
  <2> HIDE DEF Grows, Up
  <2> QED BY <2>5, <2>7
<1>3. Cardinality(Cells) \in T
  <2> HIDE DEF T
  <2> QED BY <1>1, <1>2, Induct, Squares, FS_CardinalityType
<1>4. PICK f : Grows(f) /\ Up(f, Cardinality(Cells))
  BY <1>3
<1>5. ASSUME NEW R \in SUBSET Cells, NEW c \in Cells PROVE f[<<R, c>>] = Opened(f, B, <<R, c>>)
  <2>1. Cardinality(Cells \ R) <= Cardinality(Cells)
    BY Squares, FS_Subset
  <2> QED BY <1>4, <2>1
<1> DEFINE g == [turn \in Turns |-> f[turn]]
<1>6. \A R \in SUBSET Cells, c \in Cells : g[<<R, c>>] = f[<<R, c>>]
  BY DEF Turns
<1>7. g = [turn \in Turns |-> g[turn]]
  OBVIOUS
<1> HIDE DEF g
<1>8. ASSUME NEW R \in SUBSET Cells, NEW c \in Cells PROVE g[<<R, c>>] = Opened(g, B, <<R, c>>)
  <2>1. Adds(f, R \cup {c}, Cells)
    BY <1>4 DEF Above, Adds
  <2>2. \A acc \in Above(R \cup {c}), d \in Cells : g[<<acc, d>>] = f[<<acc, d>>]
    BY <1>6 DEF Above
  <2>3. Opened(f, B, <<R, c>>) = Opened(g, B, <<R, c>>)
    BY <2>1, <2>2, OpenedSame
  <2> QED BY <1>5, <1>6, <2>3
<1>9. \A turn \in Turns : g[turn] = Opened(g, B, turn)
  <2> SUFFICES ASSUME NEW turn \in Turns PROVE g[turn] = Opened(g, B, turn)
    OBVIOUS
  <2>1. PICK R \in SUBSET Cells, c \in Cells : turn = <<R, c>>
    BY DEF Turns
  <2> QED BY <1>8, <2>1
<1>10. [turn \in Turns |-> g[turn]] = [turn \in Turns |-> Opened(g, B, turn)]
  BY <1>9
<1> QED BY <1>7, <1>10 DEF Reveals

\* revealSpot takes its turns.
LEMMA SpotReveals ==
    ASSUME NEW B, NEW R \in SUBSET Cells, NEW c \in Cells
    PROVE  revealSpot(B)[<<R, c>>] = Opened(revealSpot(B), B, <<R, c>>)
<1>1. Reveals(revealSpot(B), B)
  BY SpotIs, RevealsExists
<1>2. <<R, c>> \in Turns
  BY DEF Turns
<1> QED BY <1>1, <1>2 DEF Reveals

\* What is right to reveal when the cells of S are to be: those of them that are hidden, what
\* touches a clear cell that is revealed now, and all of it.
Opens(B, R, S, Q) ==
    /\ Q \in Above(R \cup S)
    /\ \A x \in Q \ R : x \in S \/ \E d \in Q \ R : Clear(B, d) /\ x \in Touching(d)
    /\ \A d \in Q \ R : Clear(B, d) => Touching(d) \subseteq Q

\* Revealing first some cells and then one more.
LEMMA OpensOn ==
    ASSUME NEW B, NEW R, NEW S, NEW Q, NEW d, NEW P, Opens(B, R, S, Q), Opens(B, Q, {d}, P)
    PROVE  Opens(B, R, S \cup {d}, P)
<1>1. P \in Above(R \cup (S \cup {d})) /\ R \subseteq Q /\ Q \subseteq P
  BY DEF Opens, Above
<1>2. ASSUME NEW x \in P \ R
      PROVE  x \in S \cup {d} \/ \E e \in P \ R : Clear(B, e) /\ x \in Touching(e)
  <2>1. CASE x \in Q
    BY <1>1, <1>2, <2>1 DEF Opens
  <2>2. CASE x \notin Q
    BY <1>1, <1>2, <2>2 DEF Opens
  <2> QED BY <2>1, <2>2
<1>3. ASSUME NEW e \in P \ R, Clear(B, e) PROVE Touching(e) \subseteq P
  <2>1. CASE e \in Q
    BY <1>1, <1>3, <2>1 DEF Opens
  <2>2. CASE e \notin Q
    BY <1>1, <1>3, <2>2 DEF Opens
  <2> QED BY <2>1, <2>2
<1> QED BY <1>1, <1>2, <1>3 DEF Opens

\* Revealing one cell after another.
LEMMA FoldOpens ==
    ASSUME NEW B, NEW base \in SUBSET Cells, NEW S \in SUBSET Cells, NEW f,
           \A acc \in Above(base), d \in S : Opens(B, acc, {d}, f[<<acc, d>>])
    PROVE  Opens(B, base, S, FoldOf(f, base, S))
<1>1. Adds(f, base, S)
  BY DEF Adds, Opens, Above
<1>2. PICK h \in [SUBSET S -> Above(base)] : Goes(h, f, base, S) /\ FoldOf(f, base, S) = h[S]
  <2>1. Comes(f, base, S, Above(base))
    BY <1>1, FoldAdds
  <2> QED BY <2>1 DEF Comes
<1>3. \A s \in SUBSET S : h[s] = IF s = {} THEN base ELSE f[<<h[s \ {pick(s)}], pick(s)>>]
  BY <1>2 DEF Goes
<1>4. IsFiniteSet(S)
  BY Squares, FS_Subset
<1> DEFINE G == {s \in SUBSET S : Opens(B, base, s, h[s])}
<1>5. {} \in G
  <2>1. h[{}] = base
    BY <1>3
  <2>2. Opens(B, base, {}, base)
    BY DEF Opens, Above
  <2> QED BY <2>1, <2>2
<1>6. ASSUME NEW s \in SUBSET S, s # {}, s \ {pick(s)} \in G PROVE s \in G
  <2>1. pick(s) \in s /\ s \ {pick(s)} \in SUBSET S
    BY <1>4, <1>6, LessOne
  <2>2. h[s \ {pick(s)}] \in Above(base) /\ h[s] = f[<<h[s \ {pick(s)}], pick(s)>>]
    BY <1>3, <1>6, <2>1
  <2>3. Opens(B, h[s \ {pick(s)}], {pick(s)}, h[s])
    BY <2>1, <2>2
  <2>4. Opens(B, base, (s \ {pick(s)}) \cup {pick(s)}, h[s])
    BY <1>6, <2>3, OpensOn
  <2>5. (s \ {pick(s)}) \cup {pick(s)} = s
    BY <2>1
  <2> QED BY <2>4, <2>5
<1>7. S \in G
  <2> HIDE DEF G
  <2> QED BY <1>4, <1>5, <1>6, OneByOne
<1> QED BY <1>2, <1>7

\* For any board: revealSpot reveals what is right to reveal.
LEMMA SpotOpens ==
    ASSUME NEW B
    PROVE  \A R \in SUBSET Cells, c \in Cells : Opens(B, R, {c}, revealSpot(B)[<<R, c>>])
<1> DEFINE spot == revealSpot(B)
           Up(n) == \A R \in SUBSET Cells, c \in Cells :
                      Cardinality(Cells \ R) <= n => Opens(B, R, {c}, spot[<<R, c>>])
           T == {n \in Nat : Up(n)}
<1>0. \A R \in SUBSET Cells : Cardinality(Cells \ R) \in Nat
  BY HiddenIs
<1>1. ASSUME NEW R \in SUBSET Cells, NEW c \in Cells
      PROVE  spot[<<R, c>>] = IF c \in R THEN R ELSE IF ~Clear(B, c) THEN R \cup {c}
                              ELSE FoldOf(spot, R \cup {c}, Touching(c))
  BY SpotReveals, OpenedIs
<1> HIDE DEF spot
<1>2. ASSUME NEW R \in SUBSET Cells, NEW c \in R PROVE Opens(B, R, {c}, spot[<<R, c>>])
  <2>1. spot[<<R, c>>] = R
    BY <1>1
  <2> QED BY <2>1 DEF Opens, Above
<1>3. 0 \in T
  <2> SUFFICES ASSUME NEW R \in SUBSET Cells, NEW c \in Cells, Cardinality(Cells \ R) <= 0
               PROVE  Opens(B, R, {c}, spot[<<R, c>>])
    OBVIOUS
  <2>1. Cardinality(Cells \ R) = 0
    BY <1>0
  <2>2. c \in R
    BY <2>1, HiddenIs
  <2> QED BY <1>2, <2>2
<1>4. ASSUME NEW n \in Nat, n \in T PROVE n + 1 \in T
  <2> SUFFICES ASSUME NEW R \in SUBSET Cells, NEW c \in Cells, Cardinality(Cells \ R) <= n + 1
               PROVE  Opens(B, R, {c}, spot[<<R, c>>])
    OBVIOUS
  <2>1. CASE c \in R
    BY <1>2, <2>1
  <2>2. CASE c \notin R /\ ~Clear(B, c)
    <3>1. spot[<<R, c>>] = R \cup {c}
      BY <1>1, <2>2
    <3> QED BY <2>2, <3>1 DEF Opens, Above
  <2>3. CASE c \notin R /\ Clear(B, c)
    <3> DEFINE base == R \cup {c}
               Q == FoldOf(spot, base, Touching(c))
    <3>1. base \in SUBSET Cells /\ Touching(c) \in SUBSET Cells
      BY Neighbours
    <3>2. ASSUME NEW acc \in Above(base), NEW d \in Touching(c)
          PROVE  Opens(B, acc, {d}, spot[<<acc, d>>])
      <4>1. acc \in SUBSET Cells /\ d \in Cells
        BY <3>1, <3>2 DEF Above
      <4>2. Cardinality(Cells \ acc) + 1 <= Cardinality(Cells \ R)
        BY <2>3, <3>2, HiddenIs
      <4>3. Cardinality(Cells \ acc) \in Nat /\ Cardinality(Cells \ R) \in Nat
        BY <1>0, <4>1
      <4>4. Cardinality(Cells \ acc) <= n
        BY <4>2, <4>3
      <4> QED BY <1>4, <4>1, <4>4
    <3>3. Opens(B, base, Touching(c), Q)
      <4> HIDE DEF base
      <4> QED BY <3>1, <3>2, FoldOpens
    <3>4. spot[<<R, c>>] = Q
      BY <1>1, <2>3
    <3> HIDE DEF Q
    <3>5. /\ Q \in SUBSET Cells /\ base \cup Touching(c) \subseteq Q
          /\ \A x \in Q \ base : \/ x \in Touching(c)
                                 \/ \E d \in Q \ base : Clear(B, d) /\ x \in Touching(d)
          /\ \A d \in Q \ base : Clear(B, d) => Touching(d) \subseteq Q
      BY <3>3 DEF Opens, Above
    <3>6. ASSUME NEW x \in Q \ R, x # c
          PROVE  \E d \in Q \ R : Clear(B, d) /\ x \in Touching(d)
      <4>1. x \in Q \ base
        BY <3>6
      <4>2. CASE x \in Touching(c)
        BY <2>3, <3>5, <4>2
      <4>3. CASE \E d \in Q \ base : Clear(B, d) /\ x \in Touching(d)
        BY <4>3
      <4> QED BY <3>5, <4>1, <4>2, <4>3
    <3>7. ASSUME NEW d \in Q \ R, Clear(B, d) PROVE Touching(d) \subseteq Q
      BY <3>5, <3>7
    <3>8. Q \in Above(R \cup {c})
      BY <3>5 DEF Above
    <3> QED BY <3>4, <3>6, <3>7, <3>8 DEF Opens
  <2> QED BY <2>1, <2>2, <2>3
<1>5. Cardinality(Cells) \in T
  <2> HIDE DEF T
  <2> QED BY <1>3, <1>4, Induct, Squares, FS_CardinalityType
<1>6. \A R \in SUBSET Cells : Cardinality(Cells \ R) <= Cardinality(Cells)
  BY Squares, FS_Subset
<1> QED BY <1>5, <1>6 DEF spot
-----------------------------------------------------------------------------
(* The rules of the board *)

Playing == {"waiting", "round", "closed", "dropped", "pick", "crashed"}
Ended == {"over", "shown", "resetting", "reset"}

\* A cell is revealed if it was picked, or touches a clear cell that is revealed.
Ruled(B, R, P) == \A c \in Cells : c \in R <=> c \in P \/ \E d \in Touching(c) : d \in R /\ Clear(B, d)

\* The inductive invariant of the board: its state is that of main's loop, and its bombs are laid
\* when the game has begun.
Boarded ==
    /\ main \in Playing \cup Ended /\ panicked \in BOOLEAN
    /\ bombs \in SUBSET Cells /\ revealed \in SUBSET Cells /\ revealCount \in 0 .. Height * Width
    /\ main \in Playing => state \in {"INIT", "PLAYING"}
    /\ main \in Ended => state \in {"WIN", "LOSE"}
    /\ state = "INIT" => bombs = {} /\ revealed = {} /\ picked = {}
    /\ state # "INIT" => Cardinality(bombs) = Bombs
    /\ main \notin {"shown", "resetting", "reset"} => revealCount = Cardinality(revealed)
    /\ state = "PLAYING" => /\ bombs \cap revealed = {} /\ Cells \ revealed # bombs
                            /\ Ruled(bombs, revealed, picked)
    /\ state = "WIN" /\ main = "over" => Cells \ revealed = bombs

\* The numbers of cells: of all of them, and of some.
LEMMA CellsCounted ==
    /\ Height * Width \in Nat /\ Bombs \in Nat
    /\ \A S \in SUBSET Cells : /\ Cardinality(S) \in 0 .. Height * Width /\ IsFiniteSet(S)
                               /\ Cardinality(Cells \ S) = Height * Width - Cardinality(S)
<1>1. Height * Width = Cardinality(Cells) /\ Cardinality(Cells) \in Nat
  BY Squares, FS_CardinalityType
<1>2. Bombs \in Nat
  <2>1. Bombs \in 1 .. Cardinality(Cells) - 1
    BY <1>1, BoardAssumption
  <2> QED BY <1>1, <2>1
<1>3. ASSUME NEW S \in SUBSET Cells
      PROVE  /\ Cardinality(S) \in 0 .. Cardinality(Cells) /\ IsFiniteSet(S)
             /\ Cardinality(Cells \ S) = Cardinality(Cells) - Cardinality(S)
  <2>1. IsFiniteSet(S) /\ Cardinality(S) <= Cardinality(Cells)
    BY Squares, FS_Subset
  <2>2. Cardinality(S) \in Nat
    BY <2>1, FS_CardinalityType
  <2>3. Cardinality(Cells \ S) = Cardinality(Cells) - Cardinality(Cells \cap S)
    BY Squares, FS_Difference
  <2>4. Cells \cap S = S
    OBVIOUS
  <2> DEFINE all == Cardinality(Cells)
             some == Cardinality(S)
  <2>5. all \in Nat /\ some \in Nat /\ some <= all /\ Cardinality(Cells \ S) = all - some
    BY <1>1, <2>1, <2>2, <2>3, <2>4
  <2> HIDE DEF all, some
  <2>6. some \in 0 .. all
    BY <2>5
  <2> QED BY <2>1, <2>5, <2>6 DEF all, some
<1> QED BY <1>1, <1>2, <1>3

\* A new board has nothing on it.
LEMMA StartsBoarded == SweeperInit => Boarded
<1> SUFFICES ASSUME SweeperInit PROVE Boarded
  OBVIOUS
<1>1. /\ main = "waiting" /\ panicked = FALSE /\ bombs = {} /\ revealed = {} /\ revealCount = 0
      /\ state = "INIT" /\ picked = {}
  BY DEF SweeperInit
<1>2. Cardinality(revealed) = 0 /\ 0 \in 0 .. Height * Width
  BY <1>1, FS_EmptySet, CellsCounted
<1> QED BY <1>1, <1>2 DEF Boarded, Playing, Ended

\* Steps that leave the board alone.
LEMMA StaysBoarded ==
    ASSUME Boarded, UNCHANGED <<board, picked>>, panicked' \in BOOLEAN,
           \/ main' = main
           \/ main \in Playing /\ main' \in Playing
           \/ main \in {"shown", "resetting"} /\ main' \in {"resetting", "reset"}
    PROVE  Boarded'
BY DEF Boarded, Playing, Ended, board

\* A pick reveals by the rules, and wins when all that is hidden is bombs.
LEMMA PickSpotBoards == ASSUME Boarded, PickSpot PROVE Boarded'
<1>1. PICK B \in IF state = "INIT" THEN Drawn(point) ELSE {bombs} :
        LET Q == revealSpot(B)[<<revealed, point>>]
            n == revealCount + Cardinality(Q) - Cardinality(revealed)
        IN /\ bombs' = B /\ revealed' = Q /\ revealCount' = n
           /\ state' = IF point \in B THEN "LOSE" ELSE IF Cleared(n) THEN "WIN" ELSE "PLAYING"
           /\ main' = IF state' = "PLAYING" THEN "waiting" ELSE "over"
  BY DEF PickSpot
<1> DEFINE Q == revealSpot(B)[<<revealed, point>>]
           n == revealCount + Cardinality(Q) - Cardinality(revealed)
<1>2. /\ main = "pick" /\ point \in Cells /\ picked' = picked \cup {point} /\ panicked' = panicked
  BY DEF PickSpot
<1>3. /\ state \in {"INIT", "PLAYING"} /\ revealed \in SUBSET Cells
      /\ revealCount = Cardinality(revealed)
  BY <1>2 DEF Boarded, Playing
<1>4. /\ B \in SUBSET Cells /\ Cardinality(B) = Bombs /\ B \cap revealed = {}
      /\ Ruled(B, revealed, picked)
  <2>1. CASE state = "INIT"
    BY <1>1, <2>1 DEF Drawn, Boarded, Ruled
  <2>2. CASE state = "PLAYING"
    BY <1>1, <2>2 DEF Boarded
  <2> QED BY <1>3, <2>1, <2>2
<1>5. Opens(B, revealed, {point}, Q)
  BY <1>2, <1>3, SpotOpens
<1>6. bombs' = B /\ revealed' = Q /\ revealCount' = n
  BY <1>1
<1>7. /\ state' = IF point \in B THEN "LOSE" ELSE IF Cleared(n) THEN "WIN" ELSE "PLAYING"
      /\ main' = IF state' = "PLAYING" THEN "waiting" ELSE "over"
  BY <1>1
<1> HIDE DEF Q
<1>8. /\ Q \in SUBSET Cells /\ revealed \subseteq Q /\ point \in Q
      /\ \A x \in Q \ revealed : x = point \/ \E d \in Q \ revealed : Clear(B, d) /\ x \in Touching(d)
      /\ \A d \in Q \ revealed : Clear(B, d) => Touching(d) \subseteq Q
  BY <1>5 DEF Opens, Above
<1>9. n = Cardinality(Q) /\ Cardinality(Q) \in 0 .. Height * Width
      /\ Cardinality(Cells \ Q) = Height * Width - Cardinality(Q)
  <2> DEFINE hw == Height * Width
  <2>0. hw \in Nat
    BY CellsCounted
  <2>1. /\ Cardinality(Q) \in 0 .. hw /\ Cardinality(revealed) \in 0 .. hw
        /\ Cardinality(Cells \ Q) = hw - Cardinality(Q)
    BY <1>3, <1>8, CellsCounted
  <2> HIDE DEF hw
  <2>2. n = Cardinality(Q)
    BY <1>3, <2>0, <2>1
  <2> HIDE DEF n
  <2> QED BY <2>1, <2>2 DEF hw
<1> HIDE DEF n
<1>10. point \notin B => B \cap Q = {}
  BY <1>4, <1>8 DEF Clear
<1>11. Ruled(B, Q, picked')
  <2> SUFFICES ASSUME NEW c \in Cells
               PROVE  c \in Q <=> c \in picked' \/ \E d \in Touching(c) : d \in Q /\ Clear(B, d)
    BY DEF Ruled
  <2>0. c \in revealed <=> c \in picked \/ \E d \in Touching(c) : d \in revealed /\ Clear(B, d)
    BY <1>4 DEF Ruled
  <2>1. ASSUME c \in Q PROVE c \in picked' \/ \E d \in Touching(c) : d \in Q /\ Clear(B, d)
    <3>1. CASE c \in revealed
      BY <1>2, <1>8, <2>0, <3>1
    <3>2. CASE c \notin revealed /\ c # point
      <4>1. PICK d \in Q \ revealed : Clear(B, d) /\ c \in Touching(d)
        BY <1>8, <2>1, <3>2
      <4>2. d \in Cells
        BY <1>8
      <4>3. d \in Touching(c)
        BY <4>1, <4>2, Neighbours
      <4> QED BY <4>1, <4>3
    <3> QED BY <1>2, <3>1, <3>2
  <2>2. ASSUME c \in picked' PROVE c \in Q
    BY <1>2, <1>8, <2>0, <2>2
  <2>3. ASSUME NEW d \in Touching(c), d \in Q, Clear(B, d) PROVE c \in Q
    <3>1. CASE d \in revealed
      BY <1>8, <2>0, <2>3, <3>1
    <3>2. CASE d \notin revealed
      <4>1. d \in Cells /\ Touching(d) \subseteq Q
        BY <1>8, <2>3, <3>2
      <4>2. c \in Touching(d)
        BY <2>3, <4>1, Neighbours
      <4> QED BY <4>1, <4>2
    <3> QED BY <3>1, <3>2
  <2> QED BY <2>1, <2>2, <2>3
<1>12. state' = "PLAYING" => B \cap Q = {} /\ Cells \ Q # B
  <2> SUFFICES ASSUME state' = "PLAYING", Cells \ Q = B PROVE FALSE
    BY <1>7, <1>10
  <2>1. n # Height * Width - Bombs
    BY <1>7 DEF Cleared
  <2> DEFINE hw == Height * Width
  <2>2. hw \in Nat /\ Bombs \in Nat /\ n \in 0 .. hw /\ Bombs = hw - n /\ n # hw - Bombs
    BY <1>4, <1>9, <2>1, CellsCounted
  <2> HIDE DEF hw
  <2> QED BY <2>2
<1>13. state' = "WIN" => Cells \ Q = B
  <2> SUFFICES ASSUME state' = "WIN" PROVE Cells \ Q = B
    OBVIOUS
  <2>1. n = Height * Width - Bombs /\ point \notin B
    BY <1>7 DEF Cleared
  <2>2. B \in SUBSET (Cells \ Q)
    BY <1>4, <1>10, <2>1
  <2> DEFINE hw == Height * Width
  <2>3. hw \in Nat /\ Bombs \in Nat /\ n = hw - Bombs /\ Cardinality(Cells \ Q) = hw - n
    BY <1>9, <2>1, CellsCounted
  <2> HIDE DEF hw
  <2>4. Cardinality(Cells \ Q) = Cardinality(B)
    BY <1>4, <2>3
  <2>5. IsFiniteSet(Cells \ Q)
    BY CellsCounted
  <2> QED BY <2>2, <2>4, <2>5, FS_Subset
<1>14. /\ state' \in {"LOSE", "WIN", "PLAYING"}
       /\ state' = "PLAYING" => main' = "waiting"
       /\ state' # "PLAYING" => main' = "over"
  BY <1>7
<1> QED BY <1>2, <1>4, <1>6, <1>8, <1>9, <1>11, <1>12, <1>13, <1>14 DEF Boarded, Playing, Ended

\* Every step keeps the board in order.
LEMMA NextBoards == Boarded /\ [SweeperNext]_sweeper => Boarded'
<1> SUFFICES ASSUME Boarded, [SweeperNext]_sweeper PROVE Boarded'
  OBVIOUS
<1>0. panicked \in BOOLEAN
  BY DEF Boarded
<1>1. CASE UNCHANGED sweeper
  BY <1>0, <1>1, StaysBoarded DEF sweeper, past
<1>2. CASE Chat
  <2>1. UNCHANGED <<board, picked, main, panicked>>
    BY <1>2 DEF Chat, Receive, AddVote, AddPoint, AddMax, past
  <2> QED BY <1>0, <2>1, StaysBoarded
<1>3. CASE StartRound \/ CloseVotes \/ DropPoints("closed", "dropped") \/ TakeMax("dropped", "pick")
  <2>1. UNCHANGED <<board, picked, panicked>> /\ main \in Playing /\ main' \in Playing
    BY <1>3 DEF StartRound, CloseVotes, DropPoints, TakeMax, past, Playing
  <2> QED BY <1>0, <2>1, StaysBoarded
<1>4. CASE DropPoints("shown", "resetting") \/ TakeMax("resetting", "reset")
  <2>1. UNCHANGED <<board, picked, panicked>>
        /\ main \in {"shown", "resetting"} /\ main' \in {"resetting", "reset"}
    BY <1>4 DEF DropPoints, TakeMax, past
  <2> QED BY <1>0, <2>1, StaysBoarded
<1>5. CASE PickSpot
  BY <1>5, PickSpotBoards
<1>6. CASE PickOffBoard
  <2>1. UNCHANGED <<board, picked>> /\ panicked' = TRUE /\ main \in Playing /\ main' \in Playing
    BY <1>6 DEF PickOffBoard, past, Playing
  <2> QED BY <2>1, StaysBoarded
<1>7. CASE RevealBombs
  BY <1>7 DEF RevealBombs, Boarded, Playing, Ended, past
<1>8. CASE Reset
  <2>1. /\ main' = "waiting" /\ state' = "INIT" /\ bombs' = {} /\ revealed' = {}
        /\ revealCount' = 0 /\ picked' = {} /\ panicked' = panicked
    BY <1>8 DEF Reset
  <2>2. Cardinality({}) = 0 /\ 0 \in 0 .. Height * Width
    BY FS_EmptySet, CellsCounted
  <2> QED BY <1>0, <2>1, <2>2 DEF Boarded, Playing, Ended
<1> QED BY <1>1, <1>2, <1>3, <1>4, <1>5, <1>6, <1>7, <1>8
        DEF SweeperNext, Main, EndRound, ResetGame
-----------------------------------------------------------------------------
(* The chat *)

Counting == {"round", "closed"}

\* Who leads while no vote has raced with Reset.
Leads ==
    /\ tick = "added" => hold.live
    /\ main \in Counting => max.live \/ max = NoPoint
    /\ main \in Counting => \A c \in DOMAIN points :
            (tick = "added" /\ c = hold.at) \/ points[c] <= Count(max)
    /\ main \notin Counting => points = NoVotes /\ tick \notin {"adding", "added"}
    /\ main \notin Counting \cup {"dropped"} => max = NoPoint
    /\ main = "dropped" => max.at \in due
    /\ main = "pick" => point \in due

\* The inductive invariant of the chat.
Counted ==
    /\ tick \in {"select", "voting", "adding", "added"}
    /\ active = (main = "round") /\ raced \in BOOLEAN
    /\ points = [c \in DOMAIN points |-> points[c]] /\ IsFiniteSet(DOMAIN points)
    /\ DOMAIN points \in SUBSET Votes /\ \A c \in DOMAIN points : points[c] \in 1 .. MaxVotes
    /\ tick \in {"voting", "adding"} => Voted < MaxVotes
    /\ max \in Points /\ hold \in Points
    /\ \A p \in {max, hold} : p.live => p.at \in DOMAIN points
    /\ tick # "select" => hold.at \in Votes
    /\ ~raced => Leads

VotesIn(p) == FoldFunction(LAMBDA n, sum : n + sum, 0, p)

\* No vote counts more than all of them.
LEMMA VotesAddUp ==
    ASSUME NEW p, IsFiniteSet(DOMAIN p), \A c \in DOMAIN p : p[c] \in Nat
    PROVE  /\ VotesIn(p) \in Nat /\ \A c \in DOMAIN p : p[c] <= VotesIn(p)
           /\ DOMAIN p = {} => VotesIn(p) = 0
<1> DEFINE S == DOMAIN p
           F(f) == [s \in SUBSET S |-> IF s = {} THEN 0 ELSE p[pick(s)] + f[s \ {pick(s)}]]
           V == CHOOSE f : f = F(f)
           g == [q \in S \X Nat |-> p[q[1]] + q[2]]
<1>1. VotesIn(p) = V[S]
  BY DEF VotesIn, FoldFunction, FoldFunctionOnSet, MapThenFoldSet, pick
<1> HIDE DEF S
<1>2. g \in [S \X Nat -> Nat] /\ \A c \in S, n \in Nat : g[<<c, n>>] = p[c] + n
  BY DEF S
<1> HIDE DEF g
<1>3. IsFiniteSet(S) /\ 0 \in Nat /\ \A c \in S : p[c] \in Nat
  BY DEF S
<1>4. PICK f \in [SUBSET S -> Nat] : \A s \in SUBSET S : GoesThrough(f, g, 0, s)
  BY <1>2, <1>3, FoldExists
<1>5. \A s \in SUBSET S : s # {} => pick(s) \in s /\ pick(s) \in S /\ s \ {pick(s)} \in SUBSET S
  BY <1>3, LessOne
<1>6. ASSUME NEW s \in SUBSET S
      PROVE  f[s] = IF s = {} THEN 0 ELSE p[pick(s)] + f[s \ {pick(s)}]
  BY <1>2, <1>4, <1>5 DEF GoesThrough
<1>7. f = F(f)
  BY <1>6
<1>8. V = F(V)
  <2> HIDE DEF F
  <2> QED BY <1>7
<1> HIDE DEF V
<1>9. \A s \in SUBSET S : V[s] = IF s = {} THEN 0 ELSE p[pick(s)] + V[s \ {pick(s)}]
  BY <1>8
<1> DEFINE G == {s \in SUBSET S : V[s] \in Nat /\ \A c \in s : p[c] <= V[s]}
<1>10. V[{}] = 0 /\ {} \in G
  <2>1. V[{}] = 0
    BY <1>9
  <2> QED BY <2>1
<1>11. ASSUME NEW s \in SUBSET S, s # {}, s \ {pick(s)} \in G PROVE s \in G
  <2> DEFINE k == pick(s)
             v == V[s \ {k}]
  <2>1. k \in s /\ k \in S
    BY <1>5, <1>11
  <2>2. V[s] = p[k] + v
    BY <1>9, <1>11
  <2>3. v \in Nat /\ \A c \in s \ {k} : p[c] <= v
    BY <1>11
  <2>4. p[k] \in Nat
    BY <1>3, <2>1
  <2> HIDE DEF k, v
  <2>5. ASSUME NEW c \in s PROVE p[c] <= V[s]
    <3>1. CASE c = k
      BY <2>2, <2>3, <2>4, <3>1
    <3>2. CASE c # k
      <4>1. p[c] <= v /\ p[c] \in Nat
        BY <1>3, <2>3, <3>2
      <4> QED BY <2>2, <2>3, <2>4, <4>1
    <3> QED BY <3>1, <3>2
  <2>6. V[s] \in Nat
    BY <2>2, <2>3, <2>4
  <2> QED BY <2>5, <2>6
<1>12. S \in G
  <2> HIDE DEF G
  <2> QED BY <1>3, <1>10, <1>11, OneByOne
<1>13. V[S] \in Nat /\ (\A c \in S : p[c] <= V[S]) /\ (S = {} => V[S] = 0)
  BY <1>10, <1>12
<1> QED BY <1>1, <1>13 DEF S

\* Of the votes there are.
LEMMA VotedIs ==
    ASSUME Counted
    PROVE  Voted \in Nat /\ \A c \in DOMAIN points : points[c] <= Voted
<1>1. IsFiniteSet(DOMAIN points) /\ \A c \in DOMAIN points : points[c] \in Nat
  <2>1. MaxVotes \in Nat
    BY BoardAssumption
  <2> QED BY <2>1 DEF Counted
<1>2. Voted = VotesIn(points)
  BY DEF Voted, VotesIn
<1> QED BY <1>1, <1>2, VotesAddUp

\* The votes before a step and after it.
LEMMA VotedThen == Voted = VotesIn(points) /\ Voted' = VotesIn(points')
<1>1. Voted = VotesIn(points)
  BY DEF Voted, VotesIn
<1>2. Voted' = VotesIn(points')
  BY DEF Voted, VotesIn, FoldFunction, FoldFunctionOnSet, MapThenFoldSet
<1> QED BY <1>1, <1>2

\* No votes add up to none.
LEMMA NoVotesYet == DOMAIN NoVotes = {} /\ VotesIn(NoVotes) = 0
<1>1. DOMAIN NoVotes = {} /\ IsFiniteSet(DOMAIN NoVotes)
  BY FS_EmptySet DEF NoVotes
<1> QED BY <1>1, VotesAddUp

\* A game starts without votes.
LEMMA StartsCounted == SweeperInit => Counted
<1> SUFFICES ASSUME SweeperInit PROVE Counted
  OBVIOUS
<1>1. /\ points = NoVotes /\ max = NoPoint /\ hold = NoPoint /\ active = FALSE
      /\ main = "waiting" /\ tick = "select" /\ raced = FALSE
  BY DEF SweeperInit
<1>2. NoPoint \in Points
  BY BoardAssumption DEF NoPoint, Points
<1>3. /\ points = [c \in DOMAIN points |-> points[c]] /\ IsFiniteSet(DOMAIN points)
      /\ DOMAIN points = {}
  BY <1>1, FS_EmptySet, NoVotesYet DEF NoVotes
<1>4. Leads
  BY <1>1 DEF Leads, Counting
<1>5. ~max.live /\ ~hold.live
  BY <1>1 DEF NoPoint
<1> QED BY <1>1, <1>2, <1>3, <1>4, <1>5 DEF Counted

\* Points that are held.
LEMMA Held ==
    ASSUME Counted, NEW p \in {max, hold}
    PROVE  /\ Count(p) \in 0 .. 2 * MaxVotes /\ Count(p) \in Nat /\ Dropped(p) \in Points
           /\ Dropped(p).at = p.at /\ ~Dropped(p).live
<1>1. p \in Points /\ (p.live => p.at \in DOMAIN points)
  BY DEF Counted
<1>2. /\ p.at \in Votes \cup {<<0, 0>>} /\ p.n \in 0 .. 2 * MaxVotes /\ p.live \in BOOLEAN
      /\ MaxVotes \in Nat
  BY <1>1, BoardAssumption DEF Points
<1>3. p.live => points[p.at] \in 1 .. MaxVotes
  BY <1>1 DEF Counted
<1>4. Count(p) \in 0 .. 2 * MaxVotes
  BY <1>2, <1>3 DEF Count
<1>5. Dropped(p) = [at |-> p.at, n |-> Count(p), live |-> FALSE]
  BY DEF Dropped
<1> HIDE DEF Count
<1>6. Dropped(p) \in Points
  BY <1>2, <1>4, <1>5 DEF Points
<1> QED BY <1>2, <1>4, <1>5, <1>6

\* Steps of main between rounds that leave the chat alone.
LEMMA StaysCounted ==
    ASSUME Counted, UNCHANGED <<points, max, hold, tick, raced>>, active' = FALSE,
           main \notin Counting \cup {"dropped"}, main' \notin Counting \cup {"dropped", "pick"}
    PROVE  Counted'
<1>1. Voted' = Voted
  BY VotedThen
<1>2. ~raced => Leads'
  BY DEF Counted, Leads, Counting
<1> QED BY <1>1, <1>2 DEF Counted, Counting

\* A vote that arrives is for a cell and within the bound.
LEMMA ReceiveCounts == ASSUME Counted, NEW m \in Messages, Receive(m) PROVE Counted'
<1>1. /\ tick = "select" /\ tick' = "voting" /\ Accepted(m) /\ Voted < MaxVotes
      /\ hold' = [NoPoint EXCEPT !.at = Vote(m)]
      /\ UNCHANGED <<points, max, active, main, point, due, raced>>
  BY DEF Receive, past
<1>2. Vote(m) \in Votes
  BY <1>1 DEF Votes
<1>3. hold' = [at |-> Vote(m), n |-> 0, live |-> FALSE]
  BY <1>1 DEF NoPoint
<1>4. hold' \in Points /\ ~hold'.live /\ hold'.at = Vote(m)
  BY <1>2, <1>3, BoardAssumption DEF Points
<1>5. Voted' = Voted /\ Count(max)' = Count(max)
  BY <1>1, VotedThen DEF Count
<1>6. ~raced => Leads'
  BY <1>1, <1>5 DEF Counted, Leads
<1> QED BY <1>1, <1>2, <1>4, <1>5, <1>6 DEF Counted

\* It is added in a round only.
LEMMA AddVoteCounts == ASSUME Counted, AddVote PROVE Counted'
<1>1. /\ tick = "voting" /\ UNCHANGED <<points, max, active, main, point, due, raced>>
      /\ active = (main = "round")
      /\ \/ active /\ tick' = "adding" /\ UNCHANGED hold
         \/ ~active /\ tick' = "select" /\ hold' = NoPoint
  BY DEF AddVote, past, Counted
<1>2. NoPoint \in Points /\ ~NoPoint.live
  BY BoardAssumption DEF NoPoint, Points
<1>3. Voted' = Voted /\ Count(max)' = Count(max)
  BY <1>1, VotedThen DEF Count
<1>4. ~raced => Leads'
  BY <1>1, <1>3 DEF Counted, Leads, Counting
<1> QED BY <1>1, <1>2, <1>3, <1>4 DEF Counted

\* A point that is added to may pass the one in the lead, and no other does.
LEMMA AddPointCounts == ASSUME Counted, AddPoint PROVE Counted'
<1> DEFINE at == hold.at
<1>1. /\ tick = "adding" /\ tick' = "added" /\ UNCHANGED <<max, active, main, point, due, raced>>
      /\ points' = [c \in DOMAIN points \cup {at} |->
                     (IF c \in DOMAIN points THEN points[c] ELSE 0) + (IF c = at THEN 1 ELSE 0)]
      /\ hold' = [hold EXCEPT !.live = TRUE]
  BY DEF AddPoint, past
<1>2. at \in Votes /\ Voted < MaxVotes /\ MaxVotes \in Nat /\ max \in Points /\ hold \in Points
  BY <1>1, BoardAssumption DEF Counted
<1>3. Voted \in Nat /\ \A c \in DOMAIN points : points[c] \in 1 .. MaxVotes /\ points[c] <= Voted
  BY VotedIs DEF Counted
<1>4. /\ DOMAIN points' = DOMAIN points \cup {at} /\ points' = [c \in DOMAIN points' |-> points'[c]]
      /\ DOMAIN points' \in SUBSET Votes
  BY <1>1, <1>2 DEF Counted
<1>5. IsFiniteSet(DOMAIN points')
  BY <1>4, FS_AddElement DEF Counted
<1>6. /\ \A c \in DOMAIN points : c # at => points'[c] = points[c]
      /\ at \in DOMAIN points => points'[at] = points[at] + 1
      /\ at \notin DOMAIN points => points'[at] = 1
  BY <1>1, <1>3
<1>7. ASSUME NEW c \in DOMAIN points' PROVE points'[c] \in 1 .. MaxVotes
  <2>1. CASE c # at
    BY <1>3, <1>4, <1>6, <2>1
  <2>2. CASE c = at /\ at \in DOMAIN points
    <3>1. points[at] \in Nat /\ points[at] < MaxVotes
      BY <1>2, <1>3, <2>2
    <3> QED BY <1>2, <1>6, <2>2, <3>1
  <2>3. CASE c = at /\ at \notin DOMAIN points
    <3>1. 1 \in 1 .. MaxVotes
      BY <1>2, <1>3
    <3> QED BY <1>6, <2>3, <3>1
  <2> QED BY <2>1, <2>2, <2>3
<1>8. hold'.at = at /\ hold'.live = TRUE /\ hold' \in Points
  BY <1>1, <1>2 DEF Points
<1>9. max.live => max.at \in DOMAIN points
  BY DEF Counted
<1>10. Count(max) \in Nat /\ (Count(max))' \in Nat /\ Count(max) <= (Count(max))'
  <2>1. Count(max) \in Nat
    BY Held
  <2>2. CASE max.live
    <3>1. Count(max) = points[max.at] /\ (Count(max))' = points'[max.at]
      BY <1>1, <2>2 DEF Count
    <3> QED BY <1>3, <1>6, <1>9, <2>2, <3>1
  <2>3. CASE ~max.live
    <3>1. Count(max) = max.n /\ (Count(max))' = max.n
      BY <1>1, <2>3 DEF Count
    <3> QED BY <2>1, <3>1
  <2> QED BY <2>2, <2>3
<1>11. ASSUME ~raced PROVE Leads'
  <2>1. Leads /\ main \in Counting
    BY <1>1, <1>11 DEF Counted, Leads
  <2>2. ASSUME NEW c \in DOMAIN points', c # at PROVE points'[c] <= (Count(max))'
    <3>1. c \in DOMAIN points /\ points'[c] = points[c] /\ points[c] \in Nat
      BY <1>3, <1>4, <1>6, <2>2
    <3>2. points[c] <= Count(max)
      BY <1>1, <2>1, <3>1 DEF Leads
    <3> QED BY <1>10, <3>1, <3>2
  <2>3. max.live \/ max = NoPoint
    BY <2>1 DEF Leads
  <2> HIDE DEF at
  <2> QED BY <1>1, <1>8, <2>1, <2>2, <2>3 DEF Leads, Counting
<1>12. active' = (main' = "round") /\ raced' \in BOOLEAN
  BY <1>1 DEF Counted
<1> HIDE DEF at
<1> QED BY <1>1, <1>2, <1>4, <1>5, <1>7, <1>8, <1>9, <1>11, <1>12 DEF Counted

\* The one that has passed takes the lead.
LEMMA AddMaxCounts == ASSUME Counted, AddMax PROVE Counted'
<1>1. /\ tick = "added" /\ tick' = "select" /\ hold' = NoPoint
      /\ max' = IF Count(max) < Count(hold) THEN hold ELSE max
      /\ UNCHANGED <<points, active, main, point, due, raced>>
  BY DEF AddMax, past, Exceeds
<1>2. NoPoint \in Points /\ ~NoPoint.live
  BY BoardAssumption DEF NoPoint, Points
<1>3. Voted' = Voted
  BY <1>1, VotedThen
<1>4. Count(max) \in Nat /\ Count(hold) \in Nat
  BY Held
<1>5. (Count(max))' = IF Count(max) < Count(hold) THEN Count(hold) ELSE Count(max)
  BY <1>1 DEF Count
<1>6. ASSUME ~raced PROVE Leads'
  <2>1. Leads /\ main \in Counting /\ hold.live
    BY <1>1, <1>6 DEF Counted, Leads
  <2>2. ASSUME NEW c \in DOMAIN points PROVE points[c] <= (Count(max))'
    <3>0. points[c] \in Nat
      BY BoardAssumption DEF Counted
    <3>1. CASE c = hold.at
      <4>1. Count(hold) = points[c]
        BY <2>1, <3>1 DEF Count
      <4> QED BY <1>4, <1>5, <3>0, <4>1
    <3>2. CASE c # hold.at
      <4>1. points[c] <= Count(max)
        BY <2>1, <3>2 DEF Leads
      <4> QED BY <1>4, <1>5, <3>0, <4>1
    <3> QED BY <3>1, <3>2
  <2>3. max'.live \/ max' = NoPoint
    BY <1>1, <2>1 DEF Leads
  <2> QED BY <1>1, <2>1, <2>2, <2>3 DEF Leads, Counting
<1>7. max' \in {max, hold}
  BY <1>1
<1>8. max' \in Points /\ (max'.live => max'.at \in DOMAIN points)
  BY <1>7 DEF Counted
<1> QED BY <1>1, <1>2, <1>3, <1>6, <1>8 DEF Counted

\* Without a race the point that leads is due.
LEMMA LeaderIsDue ==
    ASSUME Counted, ~raced, main \in Counting, tick \notin {"adding", "added"}
    PROVE  max.at \in IF points = NoVotes THEN {<<0, 0>>} ELSE Leaders
<1>1. /\ max.live \/ max = NoPoint
      /\ \A c \in DOMAIN points : points[c] <= Count(max)
  BY DEF Counted, Leads
<1>2. CASE points = NoVotes
  <2>1. ~max.live
    BY <1>2, NoVotesYet DEF Counted
  <2>2. max.at = <<0, 0>>
    BY <1>1, <2>1 DEF NoPoint
  <2> QED BY <1>2, <2>2
<1>3. CASE points # NoVotes
  <2>1. PICK c \in DOMAIN points : TRUE
    <3>1. points = [d \in DOMAIN points |-> points[d]]
      BY DEF Counted
    <3> SUFFICES ASSUME DOMAIN points = {} PROVE points = NoVotes
      BY <1>3
    <3> QED BY <3>1 DEF NoVotes
  <2>2. points[c] >= 1 /\ points[c] \in Nat
    BY BoardAssumption DEF Counted
  <2>3. ASSUME ~max.live PROVE FALSE
    <3>1. Count(max) = 0
      BY <1>1, <2>3 DEF NoPoint, Count
    <3> QED BY <1>1, <2>2, <3>1
  <2>4. Count(max) = points[max.at] /\ max.at \in DOMAIN points
    BY <2>3 DEF Count, Counted
  <2> QED BY <1>1, <1>3, <2>4 DEF Leaders
<1> QED BY <1>2, <1>3

\* When the points are dropped, the one in the lead is kept with its count.
LEMMA DropPointsCounts ==
    ASSUME Counted, NEW from, NEW to, DropPoints(from, to),
           <<from, to>> \in {<<"closed", "dropped">>, <<"shown", "resetting">>}
    PROVE  Counted'
<1>1. /\ main = from /\ main' = to /\ points' = NoVotes /\ max' = Dropped(max)
      /\ hold' = Dropped(hold) /\ due' = IF points = NoVotes THEN {<<0, 0>>} ELSE Leaders
      /\ raced' = (raced \/ tick \in {"adding", "added"}) /\ UNCHANGED <<active, tick, point>>
  BY DEF DropPoints, Races
<1>2. \/ main = "closed" /\ main' = "dropped"
      \/ main = "shown" /\ main' = "resetting"
  BY <1>1
<1>3. /\ Dropped(max) \in Points /\ Dropped(hold) \in Points /\ Dropped(max).at = max.at
      /\ Dropped(hold).at = hold.at /\ ~Dropped(max).live /\ ~Dropped(hold).live
  BY Held
<1>4. /\ points' = [c \in DOMAIN points' |-> points'[c]] /\ IsFiniteSet(DOMAIN points')
      /\ DOMAIN points' = {}
  BY <1>1, FS_EmptySet, NoVotesYet DEF NoVotes
<1>5. Voted' = 0
  BY <1>1, NoVotesYet, VotedThen
<1>6. tick \in {"voting", "adding"} => Voted' < MaxVotes
  <2>1. MaxVotes \in Nat /\ Voted \in Nat
    BY VotedIs, BoardAssumption
  <2> QED BY <1>5, <2>1 DEF Counted
<1>7. ASSUME ~raced' PROVE Leads'
  <2>1. ~raced /\ tick \notin {"adding", "added"} /\ Leads
    BY <1>1, <1>7 DEF Counted
  <2>2. CASE main = "closed"
    <3>1. max.at \in due'
      BY <1>1, <2>1, <2>2, LeaderIsDue DEF Counting
    <3> QED BY <1>1, <1>2, <1>3, <2>1, <2>2, <3>1 DEF Leads, Counting
  <2>3. CASE main = "shown"
    <3>1. max = NoPoint
      BY <2>1, <2>3 DEF Leads, Counting
    <3>2. Dropped(max) = NoPoint
      BY <3>1 DEF Dropped, NoPoint, Count
    <3> QED BY <1>1, <1>2, <2>1, <2>3, <3>2 DEF Leads, Counting
  <2> QED BY <1>2, <2>2, <2>3
<1>8. raced' \in BOOLEAN /\ active' = (main' = "round") /\ tick' = tick
  BY <1>1, <1>2 DEF Counted
<1>9. /\ tick \in {"select", "voting", "adding", "added"}
      /\ tick # "select" => hold.at \in Votes
  BY DEF Counted
<1> QED BY <1>1, <1>3, <1>4, <1>6, <1>7, <1>8, <1>9 DEF Counted

\* It is what is picked, and the next round starts without it.
LEMMA TakeMaxCounts ==
    ASSUME Counted, NEW from, NEW to, TakeMax(from, to),
           <<from, to>> \in {<<"dropped", "pick">>, <<"resetting", "reset">>}
    PROVE  Counted'
<1>1. /\ main = from /\ main' = to /\ point' = max.at /\ max' = NoPoint
      /\ raced' = (raced \/ tick \in {"adding", "added"})
      /\ UNCHANGED <<points, active, hold, tick, due>>
  BY DEF TakeMax, Races
<1>2. \/ main = "dropped" /\ main' = "pick"
      \/ main = "resetting" /\ main' = "reset"
  BY <1>1
<1>3. NoPoint \in Points /\ ~NoPoint.live
  BY BoardAssumption DEF NoPoint, Points
<1>4. Voted' = Voted
  BY <1>1, VotedThen
<1>5. ~raced' => Leads'
  BY <1>1, <1>2 DEF Counted, Leads, Counting
<1>6. raced' \in BOOLEAN /\ active' = (main' = "round")
  BY <1>1, <1>2 DEF Counted
<1> QED BY <1>1, <1>3, <1>4, <1>5, <1>6 DEF Counted

\* Every step keeps the count.
LEMMA NextCounts == Counted /\ [SweeperNext]_sweeper => Counted'
<1> SUFFICES ASSUME Counted, [SweeperNext]_sweeper PROVE Counted'
  OBVIOUS
<1>1. CASE UNCHANGED sweeper
  <2>1. UNCHANGED <<points, max, hold, tick, raced, active, main, due, point>>
    BY <1>1 DEF sweeper, chat, past
  <2>2. Voted' = Voted /\ (Count(max))' = Count(max)
    BY <2>1, VotedThen DEF Count
  <2>3. ~raced => Leads'
    BY <2>1, <2>2 DEF Counted, Leads
  <2> QED BY <2>1, <2>2, <2>3 DEF Counted
<1>2. CASE Chat
  BY <1>2, ReceiveCounts, AddVoteCounts, AddPointCounts, AddMaxCounts DEF Chat
<1>3. CASE StartRound \/ CloseVotes
  <2>1. /\ UNCHANGED <<points, max, hold, tick, raced, due, point>> /\ active' = (main' = "round")
        /\ \/ main = "waiting" /\ main' = "round"
           \/ main = "round" /\ main' = "closed"
    BY <1>3 DEF StartRound, CloseVotes, past
  <2>2. Voted' = Voted /\ (Count(max))' = Count(max)
    BY <2>1, VotedThen DEF Count
  <2>3. ~raced => Leads'
    BY <2>1, <2>2, NoVotesYet DEF Counted, Leads, Counting
  <2> QED BY <2>1, <2>2, <2>3 DEF Counted
<1>4. CASE DropPoints("closed", "dropped") \/ DropPoints("shown", "resetting")
  BY <1>4, DropPointsCounts
<1>5. CASE TakeMax("dropped", "pick") \/ TakeMax("resetting", "reset")
  BY <1>5, TakeMaxCounts
<1>6. CASE PickSpot \/ PickOffBoard \/ RevealBombs \/ Reset
  <2>1. /\ UNCHANGED <<points, max, hold, tick, raced>> /\ active' \in {active, FALSE}
        /\ main \in {"pick", "over", "reset"} /\ main' \in {"waiting", "over", "crashed", "shown"}
    BY <1>6 DEF PickSpot, PickOffBoard, RevealBombs, Reset, chat, past
  <2>2. active' = FALSE
    BY <2>1 DEF Counted
  <2> QED BY <2>1, <2>2, StaysCounted DEF Counting
<1> QED BY <1>1, <1>2, <1>3, <1>4, <1>5, <1>6 DEF SweeperNext, Main, EndRound, ResetGame
-----------------------------------------------------------------------------
\* The invariants say that the game goes by the rules.
LEMMA FollowsRules == Boarded /\ Counted => GameByRules
<1> SUFFICES ASSUME Boarded, Counted PROVE GameByRules
  OBVIOUS
<1>1. GameTypeOK
  BY DEF GameTypeOK, Boarded, Counted, Playing, Ended
<1>2. WonIsCleared
  BY DEF WonIsCleared, Boarded
<1>3. RevealedByRules
  BY DEF RevealedByRules, Boarded, Ruled, Open, Clear
<1>4. MaxLeads
  <2> SUFFICES ASSUME ~raced, tick # "added", main # "dropped"
               PROVE  /\ \A c \in DOMAIN points : points[c] <= Count(max)
                      /\ Count(max) = 0 => max.at = <<0, 0>>
    BY DEF MaxLeads
  <2>1. Leads
    BY DEF Counted
  <2>2. CASE main \in Counting
    <3>1. \A c \in DOMAIN points : points[c] <= Count(max)
      BY <2>1, <2>2 DEF Leads
    <3>2. CASE max.live
      <4>1. Count(max) = points[max.at] /\ points[max.at] # 0
        BY <3>2, BoardAssumption DEF Count, Counted
      <4> QED BY <3>1, <4>1
    <3>3. CASE max = NoPoint
      BY <3>1, <3>3 DEF NoPoint
    <3> QED BY <2>1, <2>2, <3>2, <3>3 DEF Leads
  <2>3. CASE main \notin Counting
    BY <2>1, <2>3, NoVotesYet DEF Leads, NoPoint
  <2> QED BY <2>2, <2>3
<1> QED BY <1>1, <1>2, <1>3, <1>4 DEF GameByRules

\* For any board, any messages and any number of votes: every variable stays in its type; what is
\* revealed is what the picks reveal by the rules; the game is won when all that is hidden is
\* bombs; and, unless a vote was being added while Reset ran, the point in max leads.
THEOREM GameAlwaysByRules == SweeperSpec => []GameByRules
<1>1. SweeperInit => Boarded /\ Counted
  BY StartsBoarded, StartsCounted
<1>2. Boarded /\ Counted /\ [SweeperNext]_sweeper => Boarded' /\ Counted'
  BY NextBoards, NextCounts
<1> QED BY <1>1, <1>2, FollowsRules, PTL DEF SweeperSpec

\* For any board, any messages and any number of votes: the first pick of a game never loses it,
\* and, unless a vote was being added while Reset ran, a round picks a cell that led its votes.
THEOREM PicksAreVoted == SweeperSpec => FirstPickIsSafe /\ PicksTheLeader
<1>1. SweeperInit => Boarded /\ Counted
  BY StartsBoarded, StartsCounted
<1>2. Boarded /\ Counted /\ [SweeperNext]_sweeper => Boarded' /\ Counted'
  BY NextBoards, NextCounts
<1>3. Boarded /\ Counted /\ [SweeperNext]_sweeper
      => [(PickSpot \/ PickOffBoard) /\ ~raced => point \in due]_sweeper
  BY DEF Counted, Leads, Counting, PickSpot, PickOffBoard
<1>4. Boarded /\ Counted /\ [SweeperNext]_sweeper
      => [state = "INIT" /\ state' # "INIT" => state' # "LOSE" /\ Cardinality(bombs') = Bombs]_sweeper
  <2> SUFFICES ASSUME Boarded, SweeperNext, state = "INIT", state' # "INIT"
               PROVE  state' # "LOSE" /\ Cardinality(bombs') = Bombs
    OBVIOUS
  <2>1. PickSpot
    BY DEF SweeperNext, Chat, Receive, AddVote, AddPoint, AddMax, Main, StartRound, EndRound,
           CloseVotes, DropPoints, TakeMax, PickOffBoard, RevealBombs, ResetGame, Reset, board
  <2> QED BY <2>1 DEF PickSpot, Drawn
<1> QED BY <1>1, <1>2, <1>3, <1>4, PTL DEF SweeperSpec, FirstPickIsSafe, PicksTheLeader
=============================================================================
