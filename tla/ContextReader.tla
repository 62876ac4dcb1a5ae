---------------------------- MODULE ContextReader -----------------------------
(***************************************************************************)
(* What an api.Client reads once it is connected (the end of Connect in    *)
(* pkg/api/client.go): a ContextReader (pkg/utils/context.go) with three   *)
(* goroutines and two channels, the goroutine that takes from them, and    *)
(* the framer of Connect, which goes on reading from the same connection.  *)
(* The data is abstracted to the number of reads it takes.                 *)
(***************************************************************************)
EXTENDS Naturals

CONSTANTS OutCap,    \* capacity of Out (10 in the code)
          FramerCap, \* what the framer takes before it is stuck
          MaxReads   \* bound: reads of data

ASSUME ReaderAssumption == OutCap \in Nat /\ FramerCap \in Nat /\ MaxReads \in Nat

VARIABLES
  arrived, framed,   \* reads of data that wait; that the framer has got
  ended,             \* the server has closed its end
  open,              \* the client's end
  reader,            \* internalRead
  outs, outClosed,    \* Out
  err,               \* the local channel err
  relay,             \* the goroutine that passes err on
  errs, errsClosed,  \* Err
  inner,             \* cancel was called
  waiter,            \* the goroutine of Read
  done,              \* the context of Connect
  consumer,          \* the goroutine of Connect
  burst,             \* a send on a closed channel has ended the process
  quiet              \* history: internalRead has ended without an error

input == <<arrived, framed, ended, open, done>>
inside == <<reader, outs, outClosed, err, relay, errs, errsClosed,
            inner, waiter, consumer, burst, quiet>>
rvars == <<input, inside>>

ReaderTypeOK ==
  /\ reader \in {"read", "send", "report", "returned"} /\ relay \in {"wait", "send", "cancel", "returned"}
  /\ waiter \in {"wait", "closeOut", "returned"} /\ consumer \in {"range", "err", "disconnected"}
  /\ outs \in 0 .. OutCap /\ err \in 0 .. 1 /\ errs \in 0 .. 1 /\ arrived + framed <= MaxReads

ReaderInit ==
  /\ arrived = 0 /\ framed = 0 /\ ended = FALSE /\ open = TRUE /\ done = FALSE
  /\ reader = "read" /\ outs = 0 /\ outClosed = FALSE /\ err = 0
  /\ relay = "wait" /\ errs = 0 /\ errsClosed = FALSE /\ inner = FALSE
  /\ waiter = "wait" /\ consumer = "range" /\ burst = FALSE /\ quiet = FALSE
-----------------------------------------------------------------------------
(* Around the client *)
Arrive ==
  /\ ~ended /\ arrived + framed + outs < MaxReads
  /\ \/ arrived' = arrived + 1 /\ UNCHANGED ended
     \/ ended' = TRUE /\ UNCHANGED arrived
  /\ UNCHANGED <<framed, open, done, inside>>

\* FrameWithReader, whose packets nobody takes any more.
FrameInstead ==
  /\ open /\ arrived > 0 /\ framed < FramerCap
  /\ arrived' = arrived - 1 /\ framed' = framed + 1
  /\ UNCHANGED <<ended, open, done, inside>>

\* Client.Disconnect.
Hangup ==
  /\ open /\ open' = FALSE
  /\ UNCHANGED <<arrived, framed, ended, done, inside>>

Expire ==
  /\ ~done /\ done' = TRUE
  /\ UNCHANGED <<arrived, framed, ended, open, inside>>
-----------------------------------------------------------------------------
(* internalRead *)
ReadData ==
  /\ reader = "read" /\ open /\ arrived > 0
  /\ arrived' = arrived - 1 /\ reader' = "send"
  /\ UNCHANGED <<framed, ended, open, done, outs, outClosed, err, relay, errs, errsClosed,
                 inner, waiter, consumer, burst, quiet>>
\* Seeded bug: the end is taken for an orderly one whoever has closed.
ReadFailsQuietly ==
  /\ reader = "read" /\ (~open \/ (ended /\ arrived = 0))
  /\ reader' = "returned" /\ quiet' = open
  /\ UNCHANGED <<input, outs, outClosed, err, relay, errs, errsClosed, inner, waiter, consumer, burst>>
\* Only what is not the end of the stream is an error.
ReadFails ==
  /\ reader = "read"
  /\ \/ ~open /\ reader' = "report" /\ UNCHANGED quiet
     \/ open /\ ended /\ arrived = 0 /\ reader' = "returned" /\ quiet' = TRUE
  /\ UNCHANGED <<input, outs, outClosed, err, relay, errs, errsClosed, inner, waiter, consumer, burst>>
ReportError ==
  /\ reader = "report" /\ reader' = "returned" /\ err' = 1
  /\ UNCHANGED <<input, outs, outClosed, relay, errs, errsClosed, inner, waiter, consumer, burst, quiet>>
SendOut ==
  /\ reader = "send"
  /\ \/ outClosed /\ burst' = TRUE /\ UNCHANGED <<reader, outs>>
     \/ ~outClosed /\ outs < OutCap /\ outs' = outs + 1 /\ reader' = "read" /\ UNCHANGED burst
  /\ UNCHANGED <<input, outClosed, err, relay, errs, errsClosed, inner, waiter, consumer, quiet>>

(* The goroutine that passes the error on, and then cancels. *)
\* Seeded bug: it cancels first.
TakeErrorCancels ==
  /\ relay = "wait" /\ err = 1 /\ err' = 0 /\ relay' = "send" /\ inner' = TRUE
  /\ UNCHANGED <<input, reader, outs, outClosed, errs, errsClosed, waiter, consumer, burst, quiet>>
TakeError ==
  /\ relay = "wait" /\ err = 1 /\ err' = 0 /\ relay' = "send"
  /\ UNCHANGED <<input, reader, outs, outClosed, errs, errsClosed, inner, waiter, consumer, burst, quiet>>
PassError ==
  /\ relay = "send"
  /\ \/ errsClosed /\ burst' = TRUE /\ UNCHANGED <<relay, errs>>
     \/ ~errsClosed /\ errs' = 1 /\ relay' = "cancel" /\ UNCHANGED burst
  /\ UNCHANGED <<input, reader, outs, outClosed, err, errsClosed, inner, waiter, consumer, quiet>>
CancelInner ==
  /\ relay = "cancel" /\ relay' = "returned" /\ inner' = TRUE
  /\ UNCHANGED <<input, reader, outs, outClosed, err, errs, errsClosed, waiter, consumer, burst, quiet>>

(* Read's own goroutine, when either context is done *)
CloseErr ==
  /\ waiter = "wait" /\ (done \/ inner)
  /\ errsClosed' = TRUE /\ waiter' = "closeOut"
  /\ UNCHANGED <<input, reader, outs, outClosed, err, relay, errs, inner, consumer, burst, quiet>>
CloseOut ==
  /\ waiter = "closeOut" /\ outClosed' = TRUE /\ waiter' = "returned"
  /\ UNCHANGED <<input, reader, outs, err, relay, errs, errsClosed, inner, consumer, burst, quiet>>

(* The consumer: everything in Out, then Err, then the client is disconnected and done. *)
TakeOut ==
  /\ consumer = "range"
  /\ \/ outs > 0 /\ outs' = outs - 1 /\ UNCHANGED consumer
     \/ outs = 0 /\ outClosed /\ consumer' = "err" /\ UNCHANGED outs
  /\ UNCHANGED <<input, reader, outClosed, err, relay, errs, errsClosed, inner, waiter, burst, quiet>>
TakeErr ==
  /\ consumer = "err" /\ (errs = 1 \/ errsClosed)
  /\ errs' = 0 /\ consumer' = "disconnected"
  /\ UNCHANGED <<input, reader, outs, outClosed, err, relay, errsClosed, inner, waiter, burst, quiet>>
-----------------------------------------------------------------------------
internalRead == ReadData \/ ReadFails \/ ReportError \/ SendOut
Relayed == TakeError \/ PassError \/ CancelInner
Waited == CloseErr \/ CloseOut
Consumed == TakeOut \/ TakeErr

ReaderNext == ~burst /\ (Arrive \/ FrameInstead \/ Hangup \/ Expire \/ internalRead \/ Relayed \/ Waited \/ Consumed)
-----------------------------------------------------------------------------
(* Properties *)

\* A send meets a channel that is closed, and the process ends, only after the context of the
\* client has been cancelled: an error by itself is passed on before the channels close.
PanicNeedsCancel == burst => done

\* A client that disconnects hears that it is done (WaitForDone), unless the server had closed
\* its end before: nobody is told of that, and so nobody of the client's end either.
HangupIsHeard == ~open ~> consumer = "disconnected" \/ quiet \/ burst
=============================================================================
