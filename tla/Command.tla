------------------------------ MODULE Command ------------------------------
(***************************************************************************)
(* One process, `pgroledef plan` or `pgroledef apply`, from its flags to   *)
(* its exit code: cmd/pgroledef/main.go, the connectors of                 *)
(* internal/catalog and internal/awsauth, and the settings of              *)
(* internal/conninfo, with the password prompt of module Prompt inside.    *)
(*                                                                         *)
(* A run is given by                                                       *)
(*   command      "plan" or "apply"                                        *)
(*   dsql         target.engine of the declaration                         *)
(*   auth         --auth, "" when it is not given                          *)
(*   W, w         --password, --no-password                                *)
(*   tty          stdin is a terminal                                      *)
(*   user         where the user is named: "flag", "dsn", "env", "service" *)
(*   sslmode      the mode pinned, "" for none                             *)
(*   rootCert     a CA bundle is at hand                                   *)
(*   hosts        the hosts of the connection string                       *)
(*   password     what it or the environment says: "none", "right", "wrong" *)
(*   autoApprove, allowDestroy, out                                        *)
(* and so is the server: the hosts up, and whether they speak TLS.  What   *)
(* a connection is asked for may differ from database to database.         *)
(***************************************************************************)
EXTENDS Prompt, Naturals, Sequences

CONSTANTS
  Runs, Servers,
  Demands,      \* among "trust", "password", "reject": how a connection is authenticated
  Databases,    \* how many databases Build reads
  Lifetime,     \* of a token
  MaxClock      \* bound on the clock

\* cobra refuses --password with --no-password, ParseMode an unknown --auth.
ASSUME RunsAssumption ==
  \A r \in Runs :
    /\ r.command \in {"plan", "apply"} /\ ~(r.W /\ r.w)
    /\ r.auth \in {"", "password", "rds-iam", "dsql", "dsql-admin"}
    /\ r.user \subseteq {"flag", "dsn", "env", "service"}
    /\ DOMAIN r.hosts \subseteq Nat

ASSUME BoundsAssumption ==
  /\ Databases \in Nat /\ Lifetime \in Nat /\ MaxClock \in Nat
  /\ Demands \subseteq {"trust", "password", "reject"}
  /\ "none" \notin Lines /\ "eof" \notin Lines

VARIABLES
  run, server,
  pc,         \* where the main thread is
  phase,      \* "build" or "apply": who asks for connections
  todo,       \* connections still to make
  demand,     \* what the connection being made is asked for
  attempts,   \* the settings: host and TLS of each attempt, by position
  secret,     \* Base.Password
  prompted,   \* DSNConnector.prompted
  prompts,    \* times the operator was asked for a password
  minted,     \* when the token at hand was signed
  clock,
  sent,       \* what was sent to a server to authenticate with, and how
  diff,       \* what Diff came to, "none" before
  wrote,      \* the script was written
  why         \* what a run that failed failed for

given == <<run, server>>
connecting == <<phase, todo, demand>>
asking == <<secret, prompted, prompts>>
tokens == <<minted, sent>>
results == <<diff, wrote>>
commandVars == <<given, pc, connecting, attempts, asking, tokens, clock, results, why>>
vars == <<promptVars, commandVars>>

At(point) == exit = Running /\ pc = point

\* An error return, or os.Exit.  The terminal is whatever it was.
End(code, cause) ==
  /\ exit' = code /\ why' = cause /\ pc' = "over"
  /\ UNCHANGED <<main, handler, pending, caught, echo, typed>>

----------------------------------------------------------------------------
(* Settings.                                                               *)

\* newConnector, defaultAuthMode
Mode == IF run.auth # "" THEN run.auth ELSE IF run.dsql THEN "dsql-admin" ELSE "password"
UsesToken == Mode # "password"

\* Options.dsn, pgx.ParseConfig: the user the connection resolves to; a service
\* file may name one or not.
ResolvedUser(u) ==
  CASE "flag" \in run.user -> u = "flag"
    [] "flag" \notin run.user /\ "dsn" \in run.user -> u = "dsn"
    [] run.user \cap {"flag", "dsn"} = {} /\ "env" \in run.user -> u = "env"
    [] run.user = {"service"} -> u \in {"service", "os"}
    [] OTHER -> u = "os"
userExplicit == run.user # {}

\* pgx: every host with every kind of connection its sslmode allows, the
\* encrypted one first.  An attempt stands at its host's place and its kind.
TlsOf(sslmode) ==
  CASE sslmode = "disable" -> {"plain"}
    [] sslmode = "require" -> {"encrypted"}
    [] sslmode = "verify-full" -> {"verified"}
    [] OTHER -> {"encrypted", "plain"}
Attempts(hosts, sslmode) ==
  [p \in (DOMAIN hosts) \X TlsOf(sslmode) |-> [host |-> hosts[p[1]], tls |-> p[2]]]
Primary == <<1, "encrypted">>

\* Mutant: only the first attempt is made to verify.
applyTLSToFirst(list) ==
  IF run.sslmode # "" THEN list ELSE [list EXCEPT ![Primary] = [@ EXCEPT !.tls = "verified"]]

\* applyTLS: unless an sslmode is pinned, attempts in plaintext are dropped and
\* the others verify.
applyTLS(list) ==
  IF run.sslmode # "" THEN list ELSE
  [p \in {q \in DOMAIN list : q = Primary \/ list[q].tls # "plain"} |->
     [host |-> list[p].host, tls |-> "verified"]]

Init ==
  /\ PromptInit
  /\ run \in Runs /\ server \in Servers
  /\ pc = "start" /\ phase = "build" /\ todo = 0 /\ demand = "none" /\ attempts = <<>>
  /\ secret = run.password /\ prompted = FALSE /\ prompts = 0 /\ minted = 0 /\ clock = 0
  /\ sent = {} /\ diff = "none" /\ wrote = FALSE /\ why = "none"

----------------------------------------------------------------------------
(* newConnector                                                            *)

Unusable ==
  IF UsesToken
  THEN run.W \/ ~userExplicit \/ (run.sslmode = "" /\ ~run.rootCert /\ Mode = "rds-iam")
  ELSE run.W /\ ~run.tty

\* The connector asks, later, only on a terminal and without --no-password.
HasPrompt == ~UsesToken /\ ~run.w /\ run.tty /\ ~run.W

NewConnector ==
  /\ At("start")
  /\ IF Unusable THEN End(1, "usage") /\ UNCHANGED <<todo, attempts, prompts>>
     ELSE LET list == Attempts(run.hosts, run.sslmode) IN
       /\ attempts' = IF UsesToken THEN applyTLS(list) ELSE list
       /\ todo' = 1 + Databases
       /\ IF run.W THEN Call /\ pc' = "prompting" /\ prompts' = 1
                   ELSE pc' = "connecting" /\ UNCHANGED <<promptVars, prompts>>
       /\ UNCHANGED why
  /\ UNCHANGED <<given, phase, demand, secret, prompted, tokens, clock, results>>

----------------------------------------------------------------------------
(* Connect                                                                 *)

\* pgx goes through the attempts until a host answers in the way asked for.
Answered ==
  {p \in DOMAIN attempts :
     /\ attempts[p].host \in server.up
     /\ attempts[p].tls = "plain" \/ server.tls
     /\ attempts[p].tls = "verified" => run.rootCert \/ Mode \in {"dsql", "dsql-admin"}}
First ==
  CHOOSE p \in Answered :
    \A q \in Answered : p[1] < q[1] \/ (p[1] = q[1] /\ (p[2] = "plain" => q[2] = "plain"))

Accepted(d) ==
  \/ d = "trust"
  \/ d = "password" /\ IF UsesToken THEN clock - minted' <= Lifetime ELSE secret = "right"

\* Connector.token, for every connection.
Minted == minted' = IF UsesToken THEN clock ELSE minted

\* pgx.ConnectConfig got through; who asked for the connection goes on.
Connected ==
  /\ todo' = todo - 1
  /\ IF todo > 1 THEN pc' = "connecting" /\ UNCHANGED <<promptVars, why>>
     ELSE IF phase = "build" THEN pc' = "diffing" /\ UNCHANGED <<promptVars, why>>
     ELSE End(0, "none")

\* Mutant: a rejection is reason to ask, however often.
shouldPromptAgain == HasPrompt

shouldPrompt == HasPrompt /\ ~prompted

Connect ==
  /\ At("connecting")
  /\ \E d \in Demands, u \in {"flag", "dsn", "env", "service", "os"} :
       /\ ResolvedUser(u)
       /\ demand' = d
       /\ IF Answered = {}
          THEN End(1, "unreachable") /\ UNCHANGED <<todo, prompted, prompts, minted, sent>>
          ELSE /\ Minted
               /\ sent' = sent \cup IF UsesToken THEN {[tls |-> attempts[First].tls, user |-> u, age |-> clock - minted']}
                                ELSE {}
               /\ IF Accepted(d) THEN Connected /\ UNCHANGED <<prompted, prompts>>
                  ELSE /\ UNCHANGED todo
                       /\ IF shouldPrompt
                          THEN /\ prompted' = TRUE /\ prompts' = prompts + 1
                               /\ main' = "called" /\ pc' = "prompting"
                               /\ UNCHANGED <<handler, pending, caught, echo, typed, exit, why>>
                          ELSE End(1, d) /\ UNCHANGED <<prompted, prompts>>
  /\ UNCHANGED <<given, phase, attempts, secret, clock, results>>

\* Mutant: the answer is used for this connection, and forgotten.
RetryWithCopy ==
  /\ At("retrying")
  /\ secret' = run.password
  /\ UNCHANGED <<given, phase, demand, attempts, prompted, prompts, tokens, clock, results>>
  /\ IF Accepted(demand) THEN Connected ELSE End(1, demand) /\ UNCHANGED todo

\* Connecting once more, after the prompt.
Retry ==
  /\ At("retrying")
  /\ UNCHANGED <<given, phase, demand, attempts, asking, tokens, clock, results>>
  /\ IF Accepted(demand) THEN Connected ELSE End(1, demand) /\ UNCHANGED todo

\* promptPassword returns.  -W keeps the answer with SetPassword.
Prompted ==
  /\ At("prompting") /\ main = "returned"
  /\ IF typed = "eof" THEN End(1, "prompt") /\ UNCHANGED <<secret, prompted>>
     ELSE /\ secret' = typed /\ prompted' = TRUE
          /\ pc' = IF run.W THEN "connecting" ELSE "retrying"
          /\ UNCHANGED <<promptVars, why>>
  /\ UNCHANGED <<given, connecting, attempts, prompts, tokens, clock, results>>

----------------------------------------------------------------------------
(* planCmd, applyCmd                                                       *)

\* Diff: an error, nothing to do, or statements.
Diffing ==
  /\ At("diffing")
  /\ diff' \in {"error", "empty", "additive", "destructive"}
  /\ IF diff' = "error" THEN End(1, "diff")
     ELSE pc' = run.command /\ UNCHANGED <<promptVars, why>>
  /\ UNCHANGED <<given, connecting, attempts, asking, tokens, clock, wrote>>

\* Mutant: exit code 2 comes before the script.
PlanExitsFirst ==
  /\ At("plan")
  /\ IF diff # "empty" THEN End(2, "none") /\ wrote' = FALSE
     ELSE wrote' = run.out /\ End(0, "none")
  /\ UNCHANGED <<given, connecting, attempts, asking, tokens, clock, diff>>

\* writePlanSQL, which may fail, and the exit code.
Plan ==
  /\ At("plan")
  /\ \/ run.out /\ End(1, "script") /\ wrote' = FALSE
     \/ wrote' = run.out /\ End(IF diff = "empty" THEN 0 ELSE 2, "none")
  /\ UNCHANGED <<given, connecting, attempts, asking, tokens, clock, diff>>

\* How many connections Apply makes: one for each database with statements.
StartApplying ==
  /\ phase' = "apply" /\ pc' = "connecting"
  /\ todo' \in 1 .. 1 + Databases
  /\ UNCHANGED <<promptVars, why>>

Apply ==
  /\ At("apply")
  /\ LET refused == diff = "destructive" /\ ~run.allowDestroy IN
     \/ diff = "empty" /\ End(0, "none") /\ UNCHANGED <<phase, todo>>
     \/ refused /\ End(1, "destructive") /\ UNCHANGED <<phase, todo>>
     \/ diff # "empty" /\ ~refused /\ run.autoApprove /\ StartApplying
     \/ /\ diff # "empty" /\ ~refused /\ ~run.autoApprove
        /\ pc' = "asking" /\ UNCHANGED <<promptVars, why, phase, todo>>
  /\ UNCHANGED <<given, demand, attempts, asking, tokens, clock, results>>

\* A line of stdin, typed or piped.
Answer ==
  /\ At("asking")
  /\ \/ StartApplying
     \/ End(1, "aborted") /\ UNCHANGED <<phase, todo>>
  /\ UNCHANGED <<given, demand, attempts, asking, tokens, clock, results>>

\* plan.Apply returns an error.
ApplyFails ==
  /\ At("connecting") /\ phase = "apply"
  /\ End(1, "sql")
  /\ UNCHANGED <<given, connecting, attempts, asking, tokens, clock, results>>

----------------------------------------------------------------------------
\* Time passes, most of it while the operator reads the plan.
Tick ==
  /\ exit = Running /\ clock < MaxClock
  /\ clock' = clock + 1
  /\ UNCHANGED <<promptVars, given, pc, connecting, attempts, asking, tokens, results, why>>

\* The prompt's goroutine goes on by itself, whatever the main thread does.
Next ==
  \/ NewConnector \/ Connect \/ Retry \/ Prompted
  \/ Diffing \/ Plan \/ Apply \/ Answer \/ ApplyFails
  \/ PromptNext /\ UNCHANGED commandVars
  \/ Tick

Spec == Init /\ [][Next]_vars

----------------------------------------------------------------------------
(* Properties.                                                             *)

\* "Called at most once" (catalog.go:100-105), however many databases turn the
\* run away, and never where nobody can answer: without a terminal, with
\* --no-password, or where a token is signed (docs/commands.md, the password).
AskedAtMostOnce ==
  prompts <= 1 /\ (prompts = 1 => run.tty /\ ~run.w /\ ~UsesToken)

\* "The answer is read once and reused for every database the run touches"
\* (docs/commands.md): who typed the right password, or had it in place, is not
\* turned away for want of one, by Build or by Apply.
AskedOnceIsEnough ==
  why = "password" /\ ~UsesToken =>
    typed # "right" /\ (typed = "none" => run.password # "right")

\* "It cannot silently end up in plaintext" (awsauth.go:162-168): unless an
\* sslmode is pinned a token only travels to a verified server, signed for a
\* user somebody named, before it expires; and no host is lost on the way.
TokensSafe ==
  /\ \A s \in sent :
       /\ run.sslmode = "" => s.tls = "verified"
       /\ s.user = "os" => run.user = {"service"}
       /\ s.age <= Lifetime
  /\ (UsesToken /\ run.sslmode = "" /\ why = "unreachable") =>
       (\A i \in DOMAIN run.hosts : run.hosts[i] \notin server.up) \/ ~server.tls

\* The exit codes of docs/commands.md: 0 is success, and for `plan` a database
\* that matches; 2 is a diff, found by `plan`, its script written; 130 and 143
\* are an interrupt at the prompt.
ExitCodes ==
  /\ exit = 0 => \/ diff = "empty"
                 \/ run.command = "apply" /\ phase = "apply" /\ todo = 0
  /\ exit = 2 => run.command = "plan" /\ diff \in {"additive", "destructive"}
  /\ exit \in {0, 2} => why = "none" /\ (run.command = "plan" => wrote = run.out)
  /\ exit = 1 => why # "none"
  /\ exit \in {130, 143} => prompts = 1 /\ exit = 128 + caught
=============================================================================
