------------------------------- MODULE Prompt -------------------------------
(***************************************************************************)
(* The password prompt, cmd/pgroledef/prompt.go: promptPassword turns echo *)
(* off and reads a line, while a goroutine of restoreOnSignal waits for a  *)
(* SIGINT or SIGTERM, restores the terminal and ends the process.          *)
(*                                                                         *)
(* The two run as they please, also between two calls of one function.     *)
(***************************************************************************)
EXTENDS Integers

CONSTANTS
  Lines,          \* what the operator may type
  SignalPoints    \* where promptPassword may be when a signal comes

VARIABLES
  main,      \* where promptPassword is
  handler,   \* where the goroutine is
  pending,   \* the signal in its channel, which holds one; 0 for none
  caught,    \* the signal it has received; 0 for none
  echo,      \* the terminal echoes what is typed
  typed,     \* the line read, "none" before, "eof" when there was none
  exit       \* the exit code of the process, Running before it ends

promptVars == <<main, handler, pending, caught, echo, typed, exit>>

Running == -1
SigInt == 2
SigTerm == 15
Signals == {SigInt, SigTerm}

MainPoints == {"idle", "called", "saved", "guarded", "reading", "read", "stopped", "returned"}

ASSUME SignalPointsAssumption == SignalPoints \subseteq MainPoints

\* Between signal.Notify and signal.Stop signals go to the channel.
Notified == main \in {"guarded", "reading", "read"}

PromptInit ==
  /\ main = "idle" /\ handler = "none" /\ pending = 0 /\ caught = 0
  /\ echo = TRUE /\ typed = "none" /\ exit = Running

----------------------------------------------------------------------------
(* promptPassword                                                          *)

Go(from, to) == exit = Running /\ main = from /\ main' = to

Call == Go("idle", "called") /\ UNCHANGED <<handler, pending, caught, echo, typed, exit>>

GetState == Go("called", "saved") /\ UNCHANGED <<handler, pending, caught, echo, typed, exit>>

\* restoreOnSignal: signal.Notify, then the goroutine.
RestoreOnSignal ==
  /\ Go("saved", "guarded")
  /\ handler' = "waiting"
  /\ UNCHANGED <<pending, caught, echo, typed, exit>>

\* term.ReadPassword: echo off, and on again when it returns.
EchoOff ==
  /\ Go("guarded", "reading")
  /\ echo' = FALSE
  /\ UNCHANGED <<handler, pending, caught, typed, exit>>

ReadLine ==
  /\ Go("reading", "read")
  /\ echo' = TRUE
  /\ typed' \in Lines \cup {"eof"}
  /\ UNCHANGED <<handler, pending, caught, exit>>

StopSignals == Go("read", "stopped") /\ UNCHANGED <<handler, pending, caught, echo, typed, exit>>

CloseDone == Go("stopped", "returned") /\ UNCHANGED <<handler, pending, caught, echo, typed, exit>>

----------------------------------------------------------------------------
(* The goroutine.  Its select takes either channel when both are ready.    *)

Catch ==
  /\ exit = Running /\ handler = "waiting" /\ pending # 0
  /\ handler' = "caught" /\ caught' = pending /\ pending' = 0
  /\ UNCHANGED <<main, echo, typed, exit>>

\* Mutant: the process ends with the terminal as it is.
RestoreNothing ==
  /\ exit = Running /\ handler = "caught"
  /\ handler' = "restored"
  /\ UNCHANGED <<main, pending, caught, echo, typed, exit>>

Restore ==
  /\ exit = Running /\ handler = "caught"
  /\ handler' = "restored" /\ echo' = TRUE
  /\ UNCHANGED <<main, pending, caught, typed, exit>>

Exit130 ==
  /\ exit = Running /\ handler = "restored"
  /\ exit' = IF caught = SigTerm THEN 143 ELSE 130
  /\ UNCHANGED <<main, handler, pending, caught, echo, typed>>

SeeDone ==
  /\ exit = Running /\ handler = "waiting" /\ main = "returned"
  /\ handler' = "gone"
  /\ UNCHANGED <<main, pending, caught, echo, typed, exit>>

----------------------------------------------------------------------------
\* A signal, put into the channel or, outside the prompt, fatal.
Signal ==
  /\ exit = Running /\ main \in SignalPoints
  /\ \E s \in Signals :
       IF Notified THEN pending' = (IF pending = 0 THEN s ELSE pending) /\ UNCHANGED exit
                   ELSE exit' = 128 + s /\ UNCHANGED pending
  /\ UNCHANGED <<main, handler, caught, echo, typed>>

PromptNext ==
  \/ GetState \/ RestoreOnSignal \/ EchoOff \/ ReadLine \/ StopSignals \/ CloseDone
  \/ Catch \/ Restore \/ Exit130 \/ SeeDone
  \/ Signal

PromptSpec == PromptInit /\ [][PromptNext \/ Call]_promptVars

----------------------------------------------------------------------------
\* "Puts the terminal back before the process dies" (prompt.go:51-54): however
\* the process ends, the operator's shell echoes what they type.
EchoRestored == exit # Running => echo
=============================================================================
