------------------------------ MODULE Process -------------------------------
(***************************************************************************)
(* The process around the handlers: how it starts and, above all, how it   *)
(* stops under requests (cmd/server/main.go; New, Start and Shutdown of    *)
(* server.go).                                                             *)
(*                                                                         *)
(* On a signal the listeners close and requests get ten seconds; then the  *)
(* usage store, the request log and the databases close one after another. *)
(* A session over WebSocket left its listener when it began, and is not    *)
(* waited for.  Requests that outlive the wait run on until the exit.      *)
(***************************************************************************)
EXTENDS FiniteSets

CONSTANTS
  Endpoints,
  Work,       \* turns: requests over HTTP, or of a WebSocket session
  Configs     \* saas sections: [provider, blocks, site, allow]

VARIABLES
  main,       \* how far the process is
  config,
  listener,   \* of each endpoint
  late,       \* the ten seconds ran out
  open,       \* what can be written: "usage", "log", "wallets"
  work        \* [pc, via, at, paid, counted, row]

vars == <<main, config, listener, late, open, work>>

Unborn == [pc |-> "none", via |-> "http", at |-> "none", paid |-> FALSE, counted |-> FALSE,
           row |-> "none"]

Init ==
  /\ main = "starting"
  /\ config \in Configs
  /\ listener = [e \in Endpoints |-> "down"]
  /\ late = FALSE
  /\ open = {"usage", "log", "wallets"}
  /\ work = [w \in Work |-> Unborn]

-----------------------------------------------------------------------------
(* Starting.                                                               *)

\* payment_provider, or else the block that is filled in.
provider(c) ==
  IF c.provider # "" THEN c.provider
  ELSE IF "zpay" \in c.blocks THEN "zpay"
  ELSE IF "alipay" \in c.blocks THEN "alipay"
  ELSE "mock"

\* An unset site is not local.
mockPaymentAllowed(c) == c.allow \/ c.site = "local"

\* selectPaymentGateway: a known provider; a real one needs its credentials.
selectPaymentGateway(c) ==
  IF provider(c) = "mock" THEN mockPaymentAllowed(c) ELSE provider(c) \in c.blocks

StartsWith ==
  /\ main = "starting" /\ selectPaymentGateway(config)
  /\ main' = "serving"
  /\ UNCHANGED <<config, listener, late, open, work>>

Fatal ==
  /\ main = "starting" /\ ~selectPaymentGateway(config)
  /\ main' = "exited"
  /\ UNCHANGED <<config, listener, late, open, work>>

\* Start: every endpoint by itself; one that cannot bind leaves the others up,
\* and its error is not seen before the last of them has stopped.
Listen(e) ==
  /\ main \in {"serving", "draining"} /\ listener[e] = "down"
  /\ \E s \in {"up", "failed"} : listener' = [listener EXCEPT ![e] = s]
  /\ UNCHANGED <<main, config, late, open, work>>

-----------------------------------------------------------------------------
(* Serving.                                                                *)

Go(w, q) == work' = [work EXCEPT ![w] = q]

\* A request over HTTP, or the upgrade and then a turn of a session.
Accept(w, e) ==
  /\ work[w].pc = "none" /\ listener[e] = "up"
  /\ \E via \in {"http", "socket"} :
       Go(w, [Unborn EXCEPT !.pc = "answering", !.via = via, !.at = e])
  /\ UNCHANGED <<main, config, listener, late, open>>

Answered(w) ==
  /\ work[w].pc = "answering"
  /\ Go(w, [work[w] EXCEPT !.pc = "charging"])
  /\ UNCHANGED <<main, config, listener, late, open>>

\* Charge: a closed database drops the charge.
Charge(w) ==
  /\ work[w].pc = "charging"
  /\ Go(w, [work[w] EXCEPT !.pc = "counting", !.paid = "wallets" \in open])
  /\ UNCHANGED <<main, config, listener, late, open>>

\* RecordClient, into a usage store that is saved by Close.
RecordClient(w) ==
  /\ work[w].pc = "counting"
  /\ Go(w, [work[w] EXCEPT !.pc = "logging", !.counted = "usage" \in open])
  /\ UNCHANGED <<main, config, listener, late, open>>

\* emitLog, and the end of the handler; a closed log takes no row.
EmitLog(w) ==
  /\ work[w].pc = "logging"
  /\ Go(w, [work[w] EXCEPT !.pc = "done",
                           !.row = IF "log" \notin open THEN "none"
                                   ELSE IF work[w].paid THEN "billed" ELSE "dropped"])
  /\ UNCHANGED <<main, config, listener, late, open>>

-----------------------------------------------------------------------------
(* Stopping.                                                               *)

\* The signal, at any time after the goroutine that waits for it was started.
Signal ==
  /\ main = "serving"
  /\ main' = "draining"
  /\ UNCHANGED <<config, listener, late, open, work>>

\* http.Server.Shutdown of one endpoint: no new connection, then the handlers
\* that are still its own; one that never listened is stopped as well.
ShutEndpoint(e) ==
  /\ main = "draining" /\ listener[e] \in {"up", "down", "failed"}
  /\ listener' = [listener EXCEPT ![e] = "closed"]
  /\ UNCHANGED <<main, config, late, open, work>>

Busy(e) == \E w \in Work : work[w].at = e /\ work[w].via = "http" /\ work[w].pc # "done"

TimeUp ==
  /\ main = "draining" /\ ~late
  /\ late' = TRUE
  /\ UNCHANGED <<main, config, listener, open, work>>

\* Mutant: the handlers are not waited for.
DrainedAtOnce == \A e \in Endpoints : listener[e] = "closed"

Drained == \A e \in Endpoints : listener[e] = "closed" /\ (late \/ ~Busy(e))

Close ==
  /\ main = "draining" /\ Drained
  /\ main' = "closing"
  /\ UNCHANGED <<config, listener, late, open, work>>

\* store.Close, requestlog.Shutdown, then the databases.
CloseNext ==
  /\ main = "closing" /\ open # {}
  /\ open' = IF "usage" \in open THEN open \ {"usage"}
             ELSE IF "log" \in open THEN open \ {"log"} ELSE {}
  /\ UNCHANGED <<main, config, listener, late, work>>

\* main returns, and what still ran is gone.
Exit ==
  /\ main = "closing" /\ open = {}
  /\ main' = "exited"
  /\ work' = [w \in Work |-> IF work[w].pc \in {"none", "done"} THEN work[w]
                             ELSE [work[w] EXCEPT !.pc = "cut"]]
  /\ UNCHANGED <<config, listener, late, open>>

Next ==
  \/ StartsWith \/ Fatal
  \/ \E e \in Endpoints : Listen(e) \/ ShutEndpoint(e) \/ \E w \in Work : Accept(w, e)
  \/ \E w \in Work : Answered(w) \/ Charge(w) \/ RecordClient(w) \/ EmitLog(w)
  \/ Signal \/ TimeUp \/ Close \/ CloseNext \/ Exit

Spec == Init /\ [][Next]_vars

-----------------------------------------------------------------------------
TypeOK ==
  /\ main \in {"starting", "serving", "draining", "closing", "exited"}
  /\ listener \in [Endpoints -> {"down", "up", "failed", "closed"}]
  /\ \A w \in Work : work[w].pc \in {"none", "answering", "charging", "counting", "logging", "done", "cut"}

\* A stop within the ten seconds loses nothing of what came over HTTP: every
\* request that was let in is charged, counted and has its row at the exit.
GracefulStop ==
  main = "exited" /\ ~late =>
    \A w \in Work : work[w].via = "http" /\ work[w].pc # "none" =>
      work[w].pc = "done" /\ work[w].paid /\ work[w].counted /\ work[w].row = "billed"

\* What a stop cuts off costs at most its row: a row never tells of a charge
\* that was not made, none is left for reconcile-charges, since the log closes
\* before the wallets, and a charge has no row only after the wait or in a session.
RowsTellCharges ==
  \A w \in Work :
    /\ work[w].row = "billed" => work[w].paid
    /\ work[w].row # "dropped"
    /\ work[w].pc \in {"done", "cut"} /\ work[w].paid /\ work[w].row = "none" =>
         late \/ work[w].via = "socket"

\* No listener opens before the gateway that confirms every payment was ruled
\* out, but for a local site or at the operator's word.
OpensGuarded ==
  (\E e \in Endpoints : listener[e] = "up") =>
    (provider(config) = "mock" => config.site = "local" \/ config.allow)

ProcessHolds == TypeOK /\ GracefulStop /\ RowsTellCharges /\ OpensGuarded
=============================================================================
