---------------------------- MODULE CommandProof ----------------------------
(***************************************************************************)
(* Proofs about the prompt, and about the command it is part of, for any   *)
(* flags, servers, lines and number of databases, and signals at any       *)
(* moment while the prompt reads.                                          *)
(***************************************************************************)
EXTENDS Command, NaturalsInduction, WellFoundedInduction, TLAPS

----------------------------------------------------------------------------
(* The prompt leaves the terminal echoing, for any lines and any signals   *)
(* but one in the gap between signal.Notify and the moment echo goes off.  *)

Before == {"idle", "called", "saved", "guarded"}

\* Why it holds: the goroutine can restore the terminal only after a signal,
\* and by then echo is off already and nothing will turn it off again.
Guarded ==
  /\ main \in MainPoints
  /\ main \in Before => pending = 0 /\ handler \in {"none", "waiting"}
  /\ ~echo => main = "reading" /\ handler # "restored"
  /\ exit # Running => echo

LEMMA GuardedInit == PromptInit => Guarded
BY DEF PromptInit, Guarded, MainPoints, Running

LEMMA GuardedStep ==
  ASSUME "guarded" \notin SignalPoints, Guarded, [PromptNext \/ Call]_promptVars
  PROVE  Guarded'
<1> USE DEF Guarded, MainPoints, Before
<1>1. CASE GetState \/ RestoreOnSignal \/ Call
  BY <1>1 DEF GetState, RestoreOnSignal, Call, Go
<1>2. CASE EchoOff
  BY <1>2 DEF EchoOff, Go
<1>3. CASE ReadLine
  BY <1>3 DEF ReadLine, Go
<1>4. CASE StopSignals \/ CloseDone
  BY <1>4 DEF StopSignals, CloseDone, Go
<1>5. CASE Catch
  BY <1>5 DEF Catch
<1>6. CASE Restore
  BY <1>6 DEF Restore
<1>7. CASE Exit130
  BY <1>7 DEF Exit130
<1>8. CASE SeeDone
  BY <1>8 DEF SeeDone
<1>9. CASE Signal
  BY <1>9 DEF Signal, Notified
<1>10. CASE UNCHANGED promptVars
  BY <1>10 DEF promptVars
<1> QED
  BY <1>1, <1>2, <1>3, <1>4, <1>5, <1>6, <1>7, <1>8, <1>9, <1>10 DEF PromptNext

\* restoreOnSignal: the process never ends with echo off.
THEOREM AlwaysEchoRestored ==
  ASSUME "guarded" \notin SignalPoints
  PROVE  PromptSpec => []EchoRestored
<1>1. PromptInit => Guarded
  BY GuardedInit
<1>2. Guarded /\ [PromptNext \/ Call]_promptVars => Guarded'
  BY GuardedStep
<1>3. Guarded => EchoRestored
  BY DEF Guarded, EchoRestored
<1> QED
  BY <1>1, <1>2, <1>3, PTL DEF PromptSpec

----------------------------------------------------------------------------
(* The command around it.                                                  *)

SignalsWhileReading == SignalPoints \subseteq {"reading", "read"}

----------------------------------------------------------------------------
(* The inductive invariant.                                                *)

Points == {"start", "connecting", "prompting", "retrying", "diffing", "plan", "apply", "asking", "over"}

\* Where the main thread can be, and with what.
Shape ==
  /\ run \in Runs
  /\ pc \in Points
  /\ pc = "over" => exit # Running
  /\ phase \in {"build", "apply"}
  /\ phase = "apply" => run.command = "apply"
  /\ todo \in Int
  /\ pc \in {"connecting", "retrying"} => todo > 0
  /\ pc = "retrying" => demand \in Demands
  /\ pc = "prompting" /\ ~run.W => demand \in Demands /\ todo > 0
  /\ pc = "prompting" => todo > 0
  /\ pc = "plan" => run.command = "plan" /\ diff \in {"empty", "additive", "destructive"}
  /\ pc \in {"apply", "asking"} => run.command = "apply"

\* The prompt runs once, while the main thread waits for it.
Asking ==
  /\ prompts \in {0, 1}
  /\ prompts = 0 => main = "idle" /\ handler = "none"
  /\ prompts = 1 => /\ run.tty /\ ~run.w /\ ~UsesToken
                    /\ prompted = TRUE \/ pc \in {"prompting", "over"}
  /\ pc = "start" => prompts = 0
  /\ pc = "prompting" => prompts = 1
  /\ exit = Running /\ pc # "prompting" => main \in {"idle", "returned"}

\* The answer is what the connector has from then on.
Answered1 ==
  /\ main \in {"idle", "called", "saved", "guarded", "reading"} => typed = "none"
  /\ main \in {"read", "stopped", "returned"} => typed # "none"
  /\ pc = "prompting" => secret = run.password
  /\ exit = Running /\ pc # "prompting" =>
       secret = IF typed = "none" THEN run.password ELSE typed
  /\ AskedOnceIsEnough

\* A process that ends says why.
Ending ==
  /\ exit = Running => why = "none"
  /\ pending \in Signals \cup {0}
  /\ handler \in {"caught", "restored"} => caught \in Signals
  /\ ExitCodes

IInv == Shape /\ Asking /\ Answered1 /\ Ending /\ Guarded

----------------------------------------------------------------------------
LEMMA IInit == Init => IInv
<1> SUFFICES ASSUME Init PROVE IInv
  OBVIOUS
<1>1. Guarded
  BY GuardedInit DEF Init
<1>2. Shape
  BY DEF Init, PromptInit, Shape, Points
<1>3. Asking
  BY DEF Init, PromptInit, Asking
<1>4. Answered1
  BY DEF Init, PromptInit, Answered1, AskedOnceIsEnough
<1>5. Ending
  BY DEF Init, PromptInit, Ending, ExitCodes, Running
<1> QED
  BY <1>1, <1>2, <1>3, <1>4, <1>5 DEF IInv

----------------------------------------------------------------------------
(* The steps, one lemma for each.                                          *)

LEMMA EndGuarded ==
  ASSUME Guarded, main # "reading", UNCHANGED <<main, handler, pending, caught, echo, typed>>
  PROVE  Guarded'
BY DEF Guarded

LEMMA CallGuarded ==
  ASSUME Guarded, main = "idle", main' = "called",
         UNCHANGED <<handler, pending, caught, echo, typed, exit>>
  PROVE  Guarded'
BY DEF Guarded, MainPoints, Before

LEMMA NewConnectorStep ==
  ASSUME IInv, NewConnector PROVE IInv'
<1> USE DEF NewConnector, At
<1>1. UsesToken' <=> UsesToken
  BY DEF UsesToken, Mode, given
<1>2. exit = Running /\ main = "idle" /\ prompts = 0 /\ typed = "none" /\ echo
  BY DEF IInv, Asking, Answered1, Guarded
<1>3. CASE Unusable
  <2>1. exit' = 1 /\ why' = "usage" /\ pc' = "over"
        /\ UNCHANGED <<main, handler, pending, caught, echo, typed, run, phase, todo, prompts, demand, secret, prompted, diff>>
    BY <1>3 DEF End, given, results
  <2>2. Shape'
    BY <2>1 DEF IInv, Shape, Points, Running
  <2>3. Asking'
    BY <2>1, <1>2 DEF IInv, Asking, Running
  <2>4. Answered1'
    BY <2>1, <1>2 DEF IInv, Answered1, Running, AskedOnceIsEnough
  <2>5. Ending'
    BY <2>1, <1>2 DEF IInv, Ending, Running, ExitCodes
  <2>6. Guarded'
    BY <2>1, <1>2, EndGuarded DEF IInv
  <2> QED
    BY <2>2, <2>3, <2>4, <2>5, <2>6 DEF IInv
<1>4. CASE ~Unusable
  <2>1. UNCHANGED <<handler, pending, caught, echo, typed, exit, run, phase, demand, secret, prompted, diff, why, wrote>>
        /\ todo' = 1 + Databases
    BY <1>4 DEF Call, Go, given, results, promptVars
  <2>2. \/ ~run.W /\ pc' = "connecting" /\ UNCHANGED <<main, prompts>>
        \/ run.W /\ pc' = "prompting" /\ main' = "called" /\ prompts' = 1
    BY <1>4 DEF Call, Go, promptVars
  <2>3. run.W => run.tty /\ ~run.w /\ ~UsesToken
    BY <1>4, RunsAssumption DEF IInv, Shape, Unusable
  <2>4. Shape'
    BY <2>1, <2>2, <1>2, BoundsAssumption DEF IInv, Shape, Points, Running
  <2>5. Asking'
    BY <1>1, <2>1, <2>2, <2>3, <1>2 DEF IInv, Asking, Running
  <2>6. Answered1'
    BY <2>1, <2>2, <1>1, <1>2 DEF IInv, Answered1, Ending, AskedOnceIsEnough, Running
  <2>7. Ending'
    BY <2>1, <2>2, <1>2 DEF IInv, Ending, ExitCodes, Running
  <2>8. Guarded'
    BY <2>1, <2>2, <1>2, CallGuarded, EndGuarded DEF IInv
  <2> QED
    BY <2>4, <2>5, <2>6, <2>7, <2>8 DEF IInv
<1> QED
  BY <1>3, <1>4

LEMMA UsesTokenKept ==
  ASSUME UNCHANGED run PROVE UsesToken' <=> UsesToken
BY DEF UsesToken, Mode

\* An end of the process, other than by a signal.
LEMMA EndStep ==
  ASSUME IInv, exit = Running, main \in {"idle", "returned"},
         NEW code \in {0, 1, 2}, NEW cause, End(code, cause),
         UNCHANGED <<run, prompts, phase, prompted>>, todo' \in Int,
         cause = "password" /\ ~UsesToken => typed # "right" /\ (typed = "none" => run.password # "right")
  PROVE  Shape' /\ Asking' /\ Answered1' /\ Guarded'
<1>1. exit' = code /\ code # Running /\ why' = cause /\ pc' = "over"
      /\ UNCHANGED <<main, handler, pending, caught, echo, typed>>
  BY DEF End, Running
<1>2. UsesToken' <=> UsesToken
  BY UsesTokenKept
<1>3. Shape'
  BY <1>1 DEF IInv, Shape, Points
<1>4. Asking'
  BY <1>1, <1>2 DEF IInv, Asking
<1>5. Answered1'
  BY <1>1, <1>2 DEF IInv, Answered1, AskedOnceIsEnough
<1>6. Guarded'
  BY <1>1, EndGuarded DEF IInv
<1> QED
  BY <1>3, <1>4, <1>5, <1>6

\* A step of the main thread past the prompt, or without it.
LEMMA OnStep ==
  ASSUME IInv, exit = Running, pc \notin {"prompting", "start"},
         pc' \notin {"prompting", "start"},
         UNCHANGED <<promptVars, run, secret, prompted, prompts, why>>
  PROVE  Asking' /\ Answered1' /\ Ending' /\ Guarded'
<1> USE DEF promptVars
<1>2. UsesToken' <=> UsesToken
  BY UsesTokenKept
<1>3. main \in {"idle", "returned"} /\ pc # "over"
  BY DEF IInv, Asking, Shape
<1>4. Asking'
  BY <1>2, <1>3 DEF IInv, Asking
<1>5. Answered1'
  BY <1>2 DEF IInv, Answered1, AskedOnceIsEnough
<1>6. Ending'
  BY DEF IInv, Ending, ExitCodes, Running
<1>7. Guarded'
  BY <1>3, EndGuarded DEF IInv
<1> QED
  BY <1>4, <1>5, <1>6, <1>7

LEMMA DiffingStep ==
  ASSUME IInv, Diffing PROVE IInv'
<1> USE DEF Diffing, At
<1>1. main \in {"idle", "returned"}
  BY DEF IInv, Asking
<1>2. CASE diff' = "error"
  <2>1. End(1, "diff") /\ UNCHANGED <<run, prompts, phase, prompted, todo>> /\ todo' \in Int
    BY <1>2 DEF given, connecting, asking, IInv, Shape
  <2>2. Ending'
    BY <2>1 DEF End, IInv, Ending, ExitCodes, Running
  <2> QED
    BY <1>1, <2>1, <2>2, EndStep DEF IInv
<1>3. CASE diff' # "error"
  <2>1. pc' = run.command /\ UNCHANGED <<promptVars, why, run, phase, todo, demand, secret, prompted, prompts>>
    BY <1>3 DEF given, connecting, asking
  <2>2. run.command \in {"plan", "apply"}
    BY RunsAssumption DEF IInv, Shape
  <2>3. Shape'
    BY <2>1, <2>2, <1>3 DEF IInv, Shape, Points, promptVars
  <2> QED
    BY <2>1, <2>2, <2>3, OnStep DEF IInv
<1> QED
  BY <1>2, <1>3

LEMMA PlanStep ==
  ASSUME IInv, Plan PROVE IInv'
<1> USE DEF Plan, At
<1>1. main \in {"idle", "returned"}
  BY DEF IInv, Asking
<1>2. UNCHANGED <<run, prompts, phase, prompted, todo, diff>> /\ todo' \in Int
  BY DEF given, connecting, asking, IInv, Shape
<1>3. run.command = "plan" /\ diff \in {"empty", "additive", "destructive"}
  BY DEF IInv, Shape
<1>4. CASE End(1, "script")
  <2>1. Ending'
    BY <1>2, <1>4 DEF End, IInv, Ending, ExitCodes, Running
  <2> QED
    BY <1>1, <1>2, <1>4, <2>1, EndStep DEF IInv
<1>5. CASE wrote' = run.out /\ diff = "empty" /\ End(0, "none")
  <2>1. Ending'
    BY <1>2, <1>5 DEF End, IInv, Ending, ExitCodes, Running
  <2> QED
    BY <1>1, <1>2, <1>5, <2>1, EndStep DEF IInv
<1>6. CASE wrote' = run.out /\ diff # "empty" /\ End(2, "none")
  <2>1. Ending'
    BY <1>2, <1>3, <1>6 DEF End, IInv, Ending, ExitCodes, Running
  <2> QED
    BY <1>1, <1>2, <1>6, <2>1, EndStep DEF IInv
<1> QED
  BY <1>4, <1>5, <1>6

LEMMA StartApplyingStep ==
  ASSUME IInv, At("apply") \/ At("asking"), StartApplying,
         UNCHANGED <<run, demand, secret, prompted, prompts, diff>>
  PROVE  IInv'
<1>1. exit = Running /\ pc \in {"apply", "asking"}
  BY DEF At
<1>2. phase' = "apply" /\ pc' = "connecting" /\ todo' \in Int /\ todo' > 0
      /\ UNCHANGED <<promptVars, why>>
  BY BoundsAssumption DEF StartApplying
<1>3. Shape'
  BY <1>1, <1>2 DEF IInv, Shape, Points, promptVars
<1>4. Asking' /\ Answered1' /\ Ending' /\ Guarded'
  BY <1>1, <1>2, OnStep
<1> QED
  BY <1>3, <1>4 DEF IInv

LEMMA ApplyStep ==
  ASSUME IInv, Apply PROVE IInv'
<1> USE DEF Apply, At
<1>1. exit = Running /\ pc = "apply" /\ main \in {"idle", "returned"}
  BY DEF IInv, Asking
<1>2. UNCHANGED <<run, demand, secret, prompts, prompted, diff, wrote>>
  BY DEF given, asking, results
<1>3. run.command = "apply"
  BY <1>1 DEF IInv, Shape
<1>4. CASE diff = "empty" /\ End(0, "none") /\ UNCHANGED <<phase, todo>>
  <2>1. todo' \in Int
    BY <1>4 DEF IInv, Shape
  <2>2. Ending'
    BY <1>2, <1>3, <1>4 DEF End, IInv, Ending, ExitCodes, Running
  <2> QED
    BY <1>1, <1>2, <1>4, <2>1, <2>2, EndStep DEF IInv
<1>5. CASE End(1, "destructive") /\ UNCHANGED <<phase, todo>>
  <2>1. todo' \in Int
    BY <1>5 DEF IInv, Shape
  <2>2. Ending'
    BY <1>2, <1>5 DEF End, IInv, Ending, ExitCodes, Running
  <2> QED
    BY <1>1, <1>2, <1>5, <2>1, <2>2, EndStep DEF IInv
<1>6. CASE StartApplying
  BY <1>2, <1>6, StartApplyingStep
<1>7. CASE pc' = "asking" /\ UNCHANGED <<promptVars, why, phase, todo>>
  <2>1. Shape'
    BY <1>1, <1>2, <1>3, <1>7 DEF IInv, Shape, Points, promptVars
  <2>2. Asking' /\ Answered1' /\ Ending' /\ Guarded'
    BY <1>1, <1>2, <1>7, OnStep
  <2> QED
    BY <2>1, <2>2 DEF IInv
<1> QED
  BY <1>4, <1>5, <1>6, <1>7

LEMMA AnswerStep ==
  ASSUME IInv, Answer PROVE IInv'
<1> USE DEF Answer, At
<1>1. exit = Running /\ pc = "asking" /\ main \in {"idle", "returned"}
  BY DEF IInv, Asking
<1>2. UNCHANGED <<run, demand, secret, prompts, prompted, diff, wrote>>
  BY DEF given, asking, results
<1>3. CASE StartApplying
  BY <1>2, <1>3, StartApplyingStep
<1>4. CASE End(1, "aborted") /\ UNCHANGED <<phase, todo>>
  <2>1. todo' \in Int
    BY <1>4 DEF IInv, Shape
  <2>2. Ending'
    BY <1>2, <1>4 DEF End, IInv, Ending, ExitCodes, Running
  <2> QED
    BY <1>1, <1>2, <1>4, <2>1, <2>2, EndStep DEF IInv
<1> QED
  BY <1>3, <1>4

LEMMA ApplyFailsStep ==
  ASSUME IInv, ApplyFails PROVE IInv'
<1> USE DEF ApplyFails, At
<1>1. exit = Running /\ main \in {"idle", "returned"}
  BY DEF IInv, Asking
<1>2. End(1, "sql") /\ UNCHANGED <<run, phase, todo, prompts, prompted>> /\ todo' \in Int
  BY DEF given, asking, connecting, IInv, Shape
<1>3. Ending'
  BY <1>2 DEF End, IInv, Ending, ExitCodes, Running
<1> QED
  BY <1>1, <1>2, <1>3, EndStep DEF IInv

\* A connection, the last one wanted or not.
LEMMA ConnectedStep ==
  ASSUME IInv, At("connecting") \/ At("retrying"), Connected,
         UNCHANGED <<run, phase, secret, prompted, prompts, diff, wrote>>, demand' \in Demands
  PROVE  IInv'
<1> USE DEF At
<1>1. exit = Running /\ pc \in {"connecting", "retrying"} /\ main \in {"idle", "returned"}
  BY DEF IInv, Asking
<1>2. todo' = todo - 1 /\ todo' \in Int /\ todo > 0 /\ (todo > 1 => todo' > 0)
  BY <1>1 DEF Connected, IInv, Shape
<1>3. CASE pc' \in {"connecting", "diffing"} /\ UNCHANGED <<promptVars, why>> /\ (pc' = "connecting" => todo > 1)
  <2>1. Shape'
    BY <1>1, <1>2, <1>3 DEF IInv, Shape, Points, promptVars
  <2>2. Asking' /\ Answered1' /\ Ending' /\ Guarded'
    BY <1>1, <1>3, OnStep
  <2> QED
    BY <2>1, <2>2 DEF IInv
<1>4. CASE todo = 1 /\ phase # "build" /\ End(0, "none")
  <2>1. run.command = "apply" /\ phase = "apply" /\ todo' = 0
    BY <1>2, <1>4 DEF IInv, Shape
  <2>2. Ending'
    BY <1>4, <2>1 DEF End, IInv, Ending, ExitCodes, Running
  <2> QED
    BY <1>1, <1>2, <1>4, <2>2, EndStep DEF IInv
<1>5. todo \in Int
  BY DEF IInv, Shape
<1> QED
  BY <1>2, <1>3, <1>4, <1>5 DEF Connected

\* A connection turned down for what it was asked for.
LEMMA TurnedDownStep ==
  ASSUME IInv, At("connecting") \/ At("retrying"), NEW d \in Demands, ~Accepted(d), End(1, d),
         UNCHANGED <<run, phase, todo, prompted, prompts, diff, wrote>>
  PROVE  IInv'
<1> USE DEF At
<1>1. exit = Running /\ pc \in {"connecting", "retrying"} /\ main \in {"idle", "returned"}
  BY DEF IInv, Asking
<1>2. todo' \in Int /\ d # "none"
  BY BoundsAssumption DEF IInv, Shape
<1>3. d = "password" /\ ~UsesToken => typed # "right" /\ (typed = "none" => run.password # "right")
  BY <1>1 DEF Accepted, IInv, Answered1
<1>4. Ending'
  BY <1>2 DEF End, IInv, Ending, ExitCodes, Running
<1> QED
  BY <1>1, <1>2, <1>3, <1>4, EndStep DEF IInv

LEMMA RetryStep ==
  ASSUME IInv, Retry PROVE IInv'
<1>1. At("retrying") /\ demand \in Demands
  BY DEF Retry, At, IInv, Shape
<1>2. UNCHANGED <<run, phase, demand, secret, prompted, prompts, diff, wrote>>
  BY DEF Retry, given, asking, results
<1>3. CASE Accepted(demand)
  BY <1>1, <1>2, <1>3, ConnectedStep DEF Retry
<1>4. CASE ~Accepted(demand)
  BY <1>1, <1>2, <1>4, TurnedDownStep DEF Retry
<1> QED
  BY <1>3, <1>4

LEMMA ConnectStep ==
  ASSUME IInv, Connect PROVE IInv'
<1>1. At("connecting") /\ exit = Running /\ pc = "connecting" /\ main \in {"idle", "returned"}
  BY DEF Connect, At, IInv, Asking
<1>2. UNCHANGED <<run, phase, secret, diff, wrote>>
  BY DEF Connect, given, results
<1>3. PICK d \in Demands :
        /\ demand' = d
        /\ IF Answered = {}
           THEN End(1, "unreachable") /\ UNCHANGED <<todo, prompted, prompts, minted, sent>>
           ELSE IF Accepted(d) THEN Connected /\ UNCHANGED <<prompted, prompts>>
                ELSE /\ UNCHANGED todo
                     /\ IF shouldPrompt
                        THEN /\ prompted' = TRUE /\ prompts' = prompts + 1
                             /\ main' = "called" /\ pc' = "prompting"
                             /\ UNCHANGED <<handler, pending, caught, echo, typed, exit, why>>
                        ELSE End(1, d) /\ UNCHANGED <<prompted, prompts>>
  BY DEF Connect
<1>4. CASE Answered = {}
  <2>1. End(1, "unreachable") /\ UNCHANGED <<todo, prompted, prompts>> /\ todo' \in Int
    BY <1>3, <1>4 DEF IInv, Shape
  <2>2. Ending'
    BY <2>1 DEF End, IInv, Ending, ExitCodes, Running
  <2> QED
    BY <1>1, <1>2, <2>1, <2>2, EndStep DEF IInv
<1>5. CASE Answered # {} /\ Accepted(d)
  BY <1>1, <1>2, <1>3, <1>5, ConnectedStep
<1>6. CASE Answered # {} /\ ~Accepted(d) /\ ~shouldPrompt
  BY <1>1, <1>2, <1>3, <1>6, TurnedDownStep
<1>7. CASE Answered # {} /\ ~Accepted(d) /\ shouldPrompt
  <2>1. /\ demand' \in Demands /\ prompted' = TRUE /\ prompts' = prompts + 1
        /\ main' = "called" /\ pc' = "prompting"
        /\ UNCHANGED <<handler, pending, caught, echo, typed, exit, why, todo>>
    BY <1>3, <1>7
  <2>2. run.tty /\ ~run.w /\ ~UsesToken /\ prompted # TRUE
    BY <1>7 DEF shouldPrompt, HasPrompt
  <2>3. prompts = 0 /\ main = "idle" /\ typed = "none"
    BY <1>1, <2>2 DEF IInv, Asking, Answered1
  <2>4. UsesToken' <=> UsesToken
    BY <1>2, UsesTokenKept
  <2>5. Shape'
    BY <1>1, <1>2, <2>1 DEF IInv, Shape, Points
  <2>6. Asking'
    BY <1>1, <1>2, <2>1, <2>2, <2>3, <2>4 DEF IInv, Asking
  <2>7. Answered1'
    BY <1>1, <1>2, <2>1, <2>3, <2>4 DEF IInv, Answered1, AskedOnceIsEnough
  <2>8. Ending'
    BY <1>1, <1>2, <2>1 DEF IInv, Ending, ExitCodes, Running
  <2>9. Guarded'
    BY <2>1, <2>3, CallGuarded DEF IInv
  <2> QED
    BY <2>5, <2>6, <2>7, <2>8, <2>9 DEF IInv
<1> QED
  BY <1>4, <1>5, <1>6, <1>7

LEMMA PromptedStep ==
  ASSUME IInv, Prompted PROVE IInv'
<1> USE DEF Prompted, At
<1>1. UNCHANGED <<run, phase, todo, demand, prompts, diff, wrote>>
      /\ exit = Running /\ pc = "prompting" /\ main = "returned"
  BY DEF given, connecting, results
<1>2. CASE typed = "eof"
  <2>1. End(1, "prompt") /\ UNCHANGED prompted /\ todo' \in Int
    BY <1>1, <1>2 DEF IInv, Shape
  <2>2. Ending'
    BY <1>1, <2>1 DEF End, IInv, Ending, ExitCodes, Running
  <2> QED
    BY <1>1, <2>1, <2>2, EndStep DEF IInv
<1>3. CASE typed # "eof"
  <2>1. /\ secret' = typed /\ prompted' = TRUE
        /\ pc' = IF run.W THEN "connecting" ELSE "retrying"
        /\ UNCHANGED <<promptVars, why>>
    BY <1>3
  <2>2. UsesToken' <=> UsesToken
    BY <1>1, UsesTokenKept
  <2> USE DEF promptVars
  <2>3. Shape'
    BY <1>1, <2>1 DEF IInv, Shape, Points
  <2>4. Asking'
    BY <1>1, <2>1, <2>2 DEF IInv, Asking
  <2>5. Answered1'
    BY <1>1, <2>1, <2>2 DEF IInv, Answered1, Ending, AskedOnceIsEnough
  <2>6. Ending'
    BY <1>1, <2>1 DEF IInv, Ending, ExitCodes, Running
  <2>7. Guarded'
    BY <1>1, <2>1, EndGuarded DEF IInv
  <2> QED
    BY <2>3, <2>4, <2>5, <2>6, <2>7 DEF IInv
<1> QED
  BY <1>2, <1>3

\* The prompt's own steps, and the signals.
LEMMA PromptStep ==
  ASSUME IInv, SignalsWhileReading, PromptNext, UNCHANGED commandVars PROVE IInv'
<1> USE DEF commandVars, given, connecting, asking, results
<1>1. UsesToken' <=> UsesToken
  BY UsesTokenKept
<1>2. exit = Running
  BY DEF PromptNext, GetState, RestoreOnSignal, EchoOff, ReadLine, StopSignals, CloseDone, Go,
         Catch, Restore, Exit130, SeeDone, Signal
<1>3. Guarded'
  BY GuardedStep DEF SignalsWhileReading, IInv
<1>4. Shape'
  BY <1>2 DEF IInv, Shape
<1>5. ASSUME GetState \/ RestoreOnSignal \/ EchoOff \/ StopSignals \/ CloseDone
      PROVE  Asking' /\ Answered1' /\ Ending'
  <2> USE DEF GetState, RestoreOnSignal, EchoOff, StopSignals, CloseDone, Go
  <2>1. Asking'
    BY <1>1, <1>2, <1>5 DEF IInv, Asking
  <2>2. Answered1'
    BY <1>1, <1>2, <1>5 DEF IInv, Answered1, AskedOnceIsEnough
  <2>3. Ending'
    BY <1>2, <1>5 DEF IInv, Ending, ExitCodes, Running
  <2> QED
    BY <2>1, <2>2, <2>3
<1>6. ASSUME ReadLine PROVE Asking' /\ Answered1' /\ Ending'
  <2> USE DEF ReadLine, Go
  <2>1. Asking' /\ pc = "prompting"
    BY <1>1, <1>2, <1>6 DEF IInv, Asking
  <2>2. typed' # "none" /\ main' = "read" /\ exit' = exit
    BY <1>6, BoundsAssumption
  <2>3. Answered1'
    BY <1>1, <1>2, <2>1, <2>2 DEF IInv, Answered1, Ending, AskedOnceIsEnough
  <2>4. Ending'
    BY <1>2, <1>6 DEF IInv, Ending, ExitCodes, Running
  <2> QED
    BY <2>1, <2>3, <2>4
<1>7. ASSUME Catch \/ Restore \/ SeeDone PROVE Asking' /\ Answered1' /\ Ending'
  <2> USE DEF Catch, Restore, SeeDone
  <2>1. Asking'
    BY <1>1, <1>2, <1>7 DEF IInv, Asking
  <2>2. Answered1'
    BY <1>1, <1>2, <1>7 DEF IInv, Answered1, AskedOnceIsEnough
  <2>3. Ending'
    BY <1>2, <1>7 DEF IInv, Ending, ExitCodes, Running
  <2> QED
    BY <2>1, <2>2, <2>3
<1>8. ASSUME Exit130 PROVE Asking' /\ Answered1' /\ Ending'
  <2> USE DEF Exit130
  <2>1. Asking' /\ prompts = 1
    BY <1>1, <1>2, <1>8 DEF IInv, Asking
  <2>2. Answered1'
    BY <1>1, <1>2, <1>8 DEF IInv, Answered1, AskedOnceIsEnough, Running
  <2>3. caught \in {2, 15} /\ exit' = 128 + caught
    BY <1>8 DEF IInv, Ending, Signals, SigInt, SigTerm
  <2>4. Ending'
    BY <1>2, <1>8, <2>1, <2>3 DEF IInv, Ending, ExitCodes, Running
  <2> QED
    BY <2>1, <2>2, <2>4
<1>9. ASSUME Signal PROVE Asking' /\ Answered1' /\ Ending'
  <2>1. UNCHANGED <<main, handler, caught, echo, typed, exit>> /\ pending' \in Signals \cup {0}
    BY <1>9 DEF Signal, Notified, SignalsWhileReading, IInv, Ending
  <2>2. Asking'
    BY <1>1, <1>2, <2>1 DEF IInv, Asking
  <2>3. Answered1'
    BY <1>1, <1>2, <2>1 DEF IInv, Answered1, AskedOnceIsEnough
  <2>4. Ending'
    BY <1>2, <2>1 DEF IInv, Ending, ExitCodes, Running
  <2> QED
    BY <2>2, <2>3, <2>4
<1> QED
  BY <1>3, <1>4, <1>5, <1>6, <1>7, <1>8, <1>9 DEF PromptNext, IInv

\* A step in which only the clock, or nothing, changes.
LEMMA TickStep ==
  ASSUME IInv, UNCHANGED <<promptVars, given, pc, connecting, asking, results, why>> PROVE IInv'
<1> USE DEF promptVars, given, connecting, asking, results
<1>1. UsesToken' <=> UsesToken
  BY UsesTokenKept
<1>2. Shape'
  BY DEF IInv, Shape
<1>3. Asking'
  BY <1>1 DEF IInv, Asking
<1>4. Answered1'
  BY <1>1 DEF IInv, Answered1, AskedOnceIsEnough
<1>5. Ending'
  BY DEF IInv, Ending, ExitCodes
<1>6. Guarded'
  BY DEF IInv, Guarded
<1> QED
  BY <1>2, <1>3, <1>4, <1>5, <1>6 DEF IInv

LEMMA IStep ==
  ASSUME SignalsWhileReading, IInv, [Next]_vars PROVE IInv'
<1>1. CASE PromptNext /\ UNCHANGED commandVars
  BY <1>1, PromptStep
<1>2. CASE Tick \/ UNCHANGED vars
  BY <1>2, TickStep DEF Tick, vars, commandVars
<1> QED
  BY <1>1, <1>2, NewConnectorStep, ConnectStep, RetryStep, PromptedStep, DiffingStep, PlanStep, ApplyStep,
     AnswerStep, ApplyFailsStep DEF Next

----------------------------------------------------------------------------
(* The theorems.                                                           *)

LEMMA Invariant ==
  ASSUME SignalsWhileReading PROVE Spec => []IInv
<1>1. Init => IInv
  BY IInit
<1>2. IInv /\ [Next]_vars => IInv'
  BY IStep
<1> QED
  BY <1>1, <1>2, PTL DEF Spec

\* shouldPrompt: the operator is asked at most once, and only where someone
\* can answer.
THEOREM AlwaysAskedAtMostOnce ==
  ASSUME SignalsWhileReading PROVE Spec => []AskedAtMostOnce
<1>1. IInv => AskedAtMostOnce
  BY DEF IInv, Asking, AskedAtMostOnce
<1> QED
  BY <1>1, Invariant, PTL

\* SetPassword and the pointer to Base: the answer serves every connection.
THEOREM AlwaysAskedOnceIsEnough ==
  ASSUME SignalsWhileReading PROVE Spec => []AskedOnceIsEnough
<1>1. IInv => AskedOnceIsEnough
  BY DEF IInv, Answered1
<1> QED
  BY <1>1, Invariant, PTL

\* planCmd, applyCmd, main: the exit code tells how the run ended.
THEOREM AlwaysExitCodes ==
  ASSUME SignalsWhileReading PROVE Spec => []ExitCodes
<1>1. IInv => ExitCodes
  BY DEF IInv, Ending
<1> QED
  BY <1>1, Invariant, PTL

\* The terminal echoes however the whole command ends, not the prompt alone.
THEOREM CommandRestoresEcho ==
  ASSUME SignalsWhileReading PROVE Spec => []EchoRestored
<1>1. IInv => EchoRestored
  BY DEF IInv, Guarded, EchoRestored
<1> QED
  BY <1>1, Invariant, PTL
----------------------------------------------------------------------------
(* Tokens, wherever signals come: the settings a connector was made with    *)
(* stay what newConnector made of them, so that every attempt there is     *)
(* verifies the server, and every host named is among them.                *)

\* What a connector that signs tokens works with.
Configured == ~Unusable /\ attempts = applyTLS(Attempts(run.hosts, run.sslmode))

TokenInv ==
  /\ run \in Runs
  /\ clock \in Nat
  /\ demand \in Demands \cup {"none"}
  /\ pc \notin {"start", "over"} /\ UsesToken => Configured
  /\ TokensSafe

LEMMA Least ==
  ASSUME NEW S, S \subseteq Nat, S # {}
  PROVE  \E m \in S : \A n \in S : m <= n
<1> DEFINE less == {ss \in Nat \X Nat : ss[1] < ss[2]}
<1>1. IsWellFoundedOn(less, Nat)
  BY NatLessThanWellFounded DEF OpToRel
<1>2. PICK m \in S : \A n \in S : ~(<<n, m>> \in less)
  <2> HIDE DEF less
  <2> QED
    BY <1>1, WFMin
<1>3. \A n \in S : n \in Nat /\ m \in Nat /\ ~(n < m)
  <2> TAKE n \in S
  <2>1. <<n, m>> \in Nat \X Nat
    OBVIOUS
  <2> QED
    BY <1>2, <2>1
<1> QED
  BY <1>3

\* pgx's choice is one of the attempts that answer.
LEMMA FirstAnswers ==
  ASSUME \A p \in DOMAIN attempts : p[1] \in Nat, Answered # {}
  PROVE  First \in Answered
<1>1. \A p \in Answered : p[1] \in Nat
  BY DEF Answered
<1> DEFINE hosts == {p[1] : p \in Answered}
<1>2. hosts \subseteq Nat /\ hosts # {}
  BY <1>1
<1>3. PICK h \in hosts : \A i \in hosts : h <= i
  BY <1>2, Least
<1>4. PICK p \in Answered : p[1] = h /\ (p[2] = "plain" => \A q \in Answered : q[1] = h => q[2] = "plain")
  BY <1>3
<1>5. \A q \in Answered : p[1] < q[1] \/ (p[1] = q[1] /\ (p[2] = "plain" => q[2] = "plain"))
  <2> TAKE q \in Answered
  <2>1. h <= q[1] /\ h \in Nat /\ q[1] \in Nat
    BY <1>1, <1>3
  <2> QED
    BY <1>4, <2>1
<1> QED
  BY <1>5 DEF First

\* Where the attempts stand.
LEMMA Positions ==
  ASSUME run \in Runs, Configured
  PROVE  \A p \in DOMAIN attempts : p[1] \in Nat
<1> DEFINE list == Attempts(run.hosts, run.sslmode)
<1>1. \A p \in DOMAIN list : p[1] \in Nat
  BY RunsAssumption DEF Attempts
<1>2. DOMAIN attempts \subseteq DOMAIN list
  <2> HIDE DEF list
  <2> QED
    BY DEF Configured, applyTLS, list
<1> QED
  BY <1>1, <1>2

\* applyTLS, unless an sslmode is pinned: what is left verifies, and it has
\* every host.
LEMMA AllVerify ==
  ASSUME Configured, run.sslmode = ""
  PROVE  /\ \A p \in DOMAIN attempts : attempts[p].tls = "verified"
         /\ \A i \in DOMAIN run.hosts : \E p \in DOMAIN attempts : attempts[p].host = run.hosts[i]
<1> DEFINE list == Attempts(run.hosts, "")
           left == {q \in DOMAIN list : q = Primary \/ list[q].tls # "plain"}
<1>1. attempts = [p \in left |-> [host |-> list[p].host, tls |-> "verified"]]
  BY DEF Configured, applyTLS
<1>2. \A i \in DOMAIN run.hosts :
        <<i, "encrypted">> \in DOMAIN list
        /\ list[<<i, "encrypted">>].host = run.hosts[i]
        /\ list[<<i, "encrypted">>].tls = "encrypted"
  BY DEF Attempts, TlsOf
<1> HIDE DEF list
<1>3. \A p \in left : attempts[p].host = list[p].host /\ attempts[p].tls = "verified"
  BY <1>1
<1>4. ASSUME NEW i \in DOMAIN run.hosts
      PROVE  \E p \in DOMAIN attempts : attempts[p].host = run.hosts[i]
  <2>1. <<i, "encrypted">> \in left /\ list[<<i, "encrypted">>].host = run.hosts[i]
    BY <1>2
  <2> QED
    BY <1>1, <1>3, <2>1
<1> QED
  BY <1>1, <1>3, <1>4

\* A step that sends nothing and is not the failure to reach a host.
LEMMA QuietStep ==
  ASSUME TokenInv, UNCHANGED <<given, attempts, sent>>, clock' \in Nat,
         demand' \in Demands \cup {"none"},
         why' = why \/ why' # "unreachable",
         pc' \in {pc, "over"} \/ pc \notin {"start", "over"}
  PROVE  TokenInv'
<1>1. (UsesToken' <=> UsesToken) /\ (Unusable' <=> Unusable)
  BY DEF UsesToken, Mode, Unusable, userExplicit, given
<1>2. Configured => Configured'
  BY <1>1 DEF Configured, applyTLS, given
<1>3. TokensSafe'
  BY <1>1 DEF TokenInv, TokensSafe, given
<1> QED
  BY <1>1, <1>2, <1>3 DEF TokenInv, given

\* A connection with a token.
LEMMA TokenSent ==
  ASSUME TokenInv, Connect, UsesToken PROVE TokensSafe'
<1> USE DEF Connect, At
<1>1. Configured /\ run \in Runs /\ UNCHANGED <<run, server>> /\ UsesToken'
  BY DEF TokenInv, given, UsesToken, Mode
<1>2. PICK d \in Demands, u \in {"flag", "dsn", "env", "service", "os"} :
        /\ ResolvedUser(u)
        /\ IF Answered = {}
           THEN End(1, "unreachable") /\ UNCHANGED sent
           ELSE /\ minted' = clock
                /\ sent' = sent \cup {[tls |-> attempts[First].tls, user |-> u, age |-> clock - minted']}
                /\ why' \in {why, d, "none"}
  <2>1. \A d : End(1, d) => why' = d
    BY DEF End
  <2>2. Connected => why' \in {why, "none"}
    BY DEF Connected, End
  <2> QED
    BY <2>1, <2>2 DEF Minted
<1>3. CASE Answered = {}
  <2>1. sent' = sent /\ why' = "unreachable"
    BY <1>2, <1>3 DEF End
  <2>2. ASSUME run.sslmode = "", server.tls
        PROVE  \A i \in DOMAIN run.hosts : run.hosts[i] \notin server.up
    <3>1. run.rootCert \/ Mode \in {"dsql", "dsql-admin"}
      BY <1>1, <2>2, RunsAssumption DEF Configured, Unusable, UsesToken, Mode
    <3>2. \A p \in DOMAIN attempts : attempts[p].host \notin server.up
      BY <1>1, <1>3, <2>2, <3>1, AllVerify DEF Answered
    <3> QED
      BY <1>1, <2>2, <3>2, AllVerify
  <2> QED
    BY <1>1, <2>1, <2>2 DEF TokenInv, TokensSafe
<1>4. CASE Answered # {}
  <2> DEFINE s == [tls |-> attempts[First].tls, user |-> u, age |-> clock - minted']
  <2>1. sent' = sent \cup {s} /\ why' \in {why, d, "none"} /\ minted' = clock
    BY <1>2, <1>4
  <2>2. s.age <= Lifetime
    BY <2>1, BoundsAssumption DEF TokenInv
  <2>3. u = "os" => run.user = {"service"}
    BY <1>1, <1>2, RunsAssumption DEF ResolvedUser, Configured, Unusable, userExplicit
  <2>4. run.sslmode = "" => s.tls = "verified"
    BY <1>1, <1>4, Positions, FirstAnswers, AllVerify DEF Answered
  <2>5. d # "unreachable"
    BY BoundsAssumption
  <2> HIDE DEF s
  <2>6. s.user = u
    BY DEF s
  <2> QED
    BY <1>1, <2>1, <2>2, <2>3, <2>4, <2>5, <2>6 DEF TokenInv, TokensSafe
<1> QED
  BY <1>3, <1>4

LEMMA TokenStep ==
  ASSUME TokenInv, [Next]_vars PROVE TokenInv'
<1> USE DEF At, given, connecting, asking, tokens, results
<1>1. CASE NewConnector
  <2>1. UNCHANGED <<run, server, sent, clock, demand>> /\ pc = "start"
    BY <1>1 DEF NewConnector
  <2>2. why' \in {why, "usage"}
    BY <1>1 DEF NewConnector, End
  <2>3. (UsesToken' <=> UsesToken) /\ (Unusable' <=> Unusable)
    BY <2>1 DEF UsesToken, Mode, Unusable, userExplicit
  <2>4. TokensSafe'
    BY <2>1, <2>2, <2>3 DEF TokenInv, TokensSafe
  <2>5. Unusable => pc' = "over"
    BY <1>1 DEF NewConnector, End
  <2>6. ~Unusable /\ UsesToken => attempts' = applyTLS(Attempts(run.hosts, run.sslmode))
    BY <1>1 DEF NewConnector
  <2>7. pc' \notin {"start", "over"} /\ UsesToken' => Configured'
    BY <2>1, <2>3, <2>5, <2>6 DEF Configured, applyTLS
  <2> QED
    BY <2>1, <2>4, <2>7 DEF TokenInv
<1>2. CASE Connect
  <2>1. UNCHANGED <<run, server, attempts, clock>> /\ demand' \in Demands /\ pc = "connecting"
    BY <1>2 DEF Connect
  <2>2. CASE UsesToken
    <3>1. UsesToken' /\ (Unusable' <=> Unusable)
      BY <2>1, <2>2 DEF UsesToken, Mode, Unusable, userExplicit
    <3>2. Configured'
      BY <2>1, <2>2, <3>1 DEF TokenInv, Configured, applyTLS
    <3> QED
      BY <1>2, <2>1, <2>2, <3>2, TokenSent DEF TokenInv
  <2>3. CASE ~UsesToken
    <3>1. sent' = sent
      BY <1>2, <2>3 DEF Connect
    <3>2. ~UsesToken'
      BY <2>1, <2>3 DEF UsesToken, Mode
    <3>3. TokensSafe'
      BY <2>1, <3>1, <3>2 DEF TokenInv, TokensSafe
    <3> QED
      BY <2>1, <3>2, <3>3 DEF TokenInv
  <2> QED
    BY <2>2, <2>3
<1>3. CASE Retry
  <2>1. why' \in {why, "none", demand} /\ demand # "unreachable"
    BY <1>3, BoundsAssumption DEF Retry, Connected, End, TokenInv
  <2> QED
    BY <1>3, <2>1, QuietStep DEF Retry, TokenInv
<1>4. CASE Prompted
  <2>1. why' \in {why, "prompt"}
    BY <1>4 DEF Prompted, End
  <2> QED
    BY <1>4, <2>1, QuietStep DEF Prompted, TokenInv
<1>5. CASE Diffing
  <2>1. why' \in {why, "diff"}
    BY <1>5 DEF Diffing, End
  <2> QED
    BY <1>5, <2>1, QuietStep DEF Diffing, TokenInv
<1>6. CASE Plan
  <2>1. why' \in {"script", "none"}
    BY <1>6 DEF Plan, End
  <2> QED
    BY <1>6, <2>1, QuietStep DEF Plan, TokenInv
<1>7. CASE Apply
  <2>1. why' \in {why, "none", "destructive"}
    BY <1>7 DEF Apply, End, StartApplying
  <2> QED
    BY <1>7, <2>1, QuietStep DEF Apply, TokenInv
<1>8. CASE Answer
  <2>1. why' \in {why, "aborted"}
    BY <1>8 DEF Answer, End, StartApplying
  <2> QED
    BY <1>8, <2>1, QuietStep DEF Answer, TokenInv
<1>9. CASE ApplyFails
  <2>1. why' = "sql"
    BY <1>9 DEF ApplyFails, End
  <2> QED
    BY <1>9, <2>1, QuietStep DEF ApplyFails, TokenInv
<1>10. CASE UNCHANGED commandVars \/ UNCHANGED vars
  BY <1>10, QuietStep DEF commandVars, vars, TokenInv
<1>11. CASE Tick
  BY <1>11, QuietStep DEF Tick, TokenInv
<1> QED
  BY <1>1, <1>2, <1>3, <1>4, <1>5, <1>6, <1>7, <1>8, <1>9, <1>10, <1>11 DEF Next

\* applyTLS, NewConnector and token of awsauth: a token travels to a server
\* that verified itself, for a user somebody named, before it expires, and the
\* plaintext attempts that are dropped take no host with them.
THEOREM AlwaysTokensSafe == Spec => []TokensSafe
<1>1. Init => TokenInv
  BY DEF Init, TokenInv, TokensSafe
<1>2. TokenInv /\ [Next]_vars => TokenInv'
  BY TokenStep
<1>3. TokenInv => TokensSafe
  BY DEF TokenInv
<1> QED
  BY <1>1, <1>2, <1>3, PTL DEF Spec
=============================================================================
