----------------------------- MODULE MCCommand -----------------------------
(* Runs and servers for TLC.                                               *)
EXTENDS Command

AnyRun ==
  [command : {"plan", "apply"}, dsql : BOOLEAN, auth : {"", "password", "rds-iam", "dsql"},
   W : BOOLEAN, w : BOOLEAN, tty : BOOLEAN, user : {{}, {"dsn", "env"}, {"service"}},
   sslmode : {"", "require", "disable"}, rootCert : BOOLEAN, hosts : {<<"writer", "reader">>},
   password : {"none", "right", "wrong"}, autoApprove : BOOLEAN, allowDestroy : BOOLEAN, out : BOOLEAN]

\* cobra refuses --password with --no-password; a flag that cannot matter has
\* one value only.
Sensible(r) ==
  LET token == r.auth \in {"rds-iam", "dsql"} \/ (r.auth = "" /\ r.dsql) IN
  /\ ~(r.W /\ r.w)
  /\ token => r.password = "none" /\ ~r.w
  /\ token \/ (r.user = {"dsn", "env"} /\ r.sslmode = "" /\ r.rootCert)
  /\ r.command = "plan" => ~r.autoApprove /\ ~r.allowDestroy
  /\ r.command = "apply" => ~r.out

MCRuns == {r \in AnyRun : Sensible(r)}

\* The connection the interrupted prompt is read on.
OneRun ==
  {r \in MCRuns : /\ r.command = "plan" /\ ~r.dsql /\ r.auth = "" /\ r.W /\ r.tty
                  /\ r.password = "none" /\ ~r.out}

MCServers == [up : {{"writer"}, {"reader"}}, tls : BOOLEAN]
OneServer == {[up |-> {"writer"}, tls |-> TRUE]}
=============================================================================
