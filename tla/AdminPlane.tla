----------------------------- MODULE AdminPlane -----------------------------
(* The administrative routes (routes/admin.rs) behind the audit middleware   *)
(* (middleware/audit.rs) and the operator gate, with the audit log and the   *)
(* override rows they write.  Query routes share the gate and the key cache. *)
(*                                                                           *)
(* The middleware extracts the principal, runs the handler, which extracts   *)
(* it again behind RequireRole, and then appends the audit row.  A client    *)
(* that goes away drops the request at any await.                            *)
EXTENDS OperatorAuth, ConfigStore

CONSTANTS
  Calls,   \* the calls clients make: a kind of request and a token
  Bodies   \* the override bodies a PUT may carry

VARIABLES
  backend,   \* which metadata backend build_metadata_store picked
  audit,     \* audit_log: the rows, by the request they are about
  written,   \* history: the requests whose write reached the override rows
  unlogged   \* history: the requests whose audit insert failed

adminVars == <<backend, audit, written, unlogged>>
vars == <<authVars, storeVars, adminVars>>

PutKinds == {"put_device", "put_default"}
WriteKinds == PutKinds \cup {"delete_device"}
\* Every route of the admin router but the audit listing is audited.
AuditedKinds == WriteKinds \cup {"disable"}
Kinds == AuditedKinds \cup {"list_audit", "query"}

ASSUME CallsAssumption ==
  /\ Calls \subseteq [kind : Kinds, token : Tokens \cup {NoToken}]
  /\ Bodies \subseteq Overrides

AdminInit ==
  /\ AuthInit
  /\ StoreInit
  /\ backend \in {"sqlite", "postgres"}
  /\ audit = {}
  /\ written = {}
  /\ unlogged = {}

-----------------------------------------------------------------------------

\* A request arrives.  The middleware lets a read of the audit log through
\* unaudited; the query routes are not under it.
Arrive(r) ==
  /\ req[r].pc = "idle"
  /\ \E c \in Calls :
       req' = [req EXCEPT ![r] =
                 NewRequest(c.kind, c.token, IF c.kind \in AuditedKinds THEN "mw" ELSE "gate")]
  /\ UNCHANGED <<clock, authMode, devReads, published, withdrawnAt, keys, lastRefresh,
                 storeVars, adminVars>>

\* The gate's steps touch neither the rows nor the log.
Authenticate(r) == AuthStep(r) /\ UNCHANGED <<storeVars, adminVars>>

Finish(r, status) == req' = [req EXCEPT ![r].pc = "respond", ![r].status = status]

\* A PUT whose body does not pass validate().
RejectBody(r) ==
  /\ req[r].pc = "run" /\ req[r].kind \in PutKinds
  /\ \E body \in Bodies : ~Valid(body)
  /\ Finish(r, 400)
  /\ UNCHANGED <<storeVars, adminVars>>

\* Mutant: the handler stores the body without validate().
WriteUnchecked(r) ==
  /\ req[r].pc = "run" /\ req[r].kind = "put_default" /\ backend = "sqlite"
  /\ written' = written \cup {r}
  /\ \E body \in Bodies : SetDefaultConfig(body)
  /\ Finish(r, 200)
  /\ UNCHANGED <<backend, audit, unlogged>>

\* The store accepts the write.  On Postgres the store is NoopConfigStore,
\* which reports success and keeps nothing.
Write(r) ==
  LET kind == req[r].kind IN
  /\ req[r].pc = "run" /\ kind \in WriteKinds
  /\ IF backend = "postgres" THEN UNCHANGED <<storeVars, written>>
     ELSE /\ written' = written \cup {r}
          /\ \/ kind = "delete_device" /\ DeleteDeviceConfig
             \/ \E body \in Bodies :
                  /\ Valid(body)
                  /\ \/ kind = "put_device" /\ SetDeviceConfig(body)
                     \/ kind = "put_default" /\ SetDefaultConfig(body)
  /\ Finish(r, IF kind = "delete_device" THEN 204 ELSE 200)
  /\ UNCHANGED <<backend, audit, unlogged>>

\* The store reports an error, on SQLite; nothing was written.
WriteFails(r) ==
  /\ req[r].pc = "run" /\ req[r].kind \in WriteKinds /\ backend = "sqlite"
  /\ Finish(r, 500)
  /\ UNCHANGED <<storeVars, adminVars>>

\* disable_device is reserved and answers 501; reads answer 200.
Answer(r) ==
  /\ req[r].pc = "run" /\ req[r].kind \notin WriteKinds
  /\ Finish(r, IF req[r].kind = "disable" THEN 501 ELSE 200)
  /\ UNCHANGED <<storeVars, adminVars>>

Handle(r) ==
  /\ RejectBody(r) \/ Write(r) \/ WriteFails(r) \/ Answer(r)
  /\ UNCHANGED <<clock, authMode, devReads, published, withdrawnAt, keys, lastRefresh>>

-----------------------------------------------------------------------------

\* principal_kind, with "anonymous" when the middleware extracted nobody
PrincipalKind(p) == IF p = Anonymous THEN "anonymous"
                    ELSE IF "Admin" \in p.roles THEN "admin" ELSE "operator"

\* Mutant: only a client error counts as a failure.
AuditRowLenient(r) ==
  [req |-> r, principal |-> PrincipalKind(req[r].principal),
   result |-> IF req[r].status \in 400..499 THEN "failure" ELSE "success"]

AuditRow(r) == [req |-> r, principal |-> PrincipalKind(req[r].principal),
                result |-> IF req[r].status \in 200..299 THEN "success" ELSE "failure"]

\* The middleware's tail: one row for the request, or a warning when the
\* insert fails.  The response is the handler's either way.  NoopAuditStore
\* takes the row and keeps nothing.
Audit(r) ==
  /\ req[r].pc = "respond"
  /\ \/ /\ req[r].kind \in AuditedKinds /\ backend = "sqlite"
        /\ \/ audit' = audit \cup {AuditRow(r)} /\ UNCHANGED unlogged
           \/ unlogged' = unlogged \cup {r} /\ UNCHANGED audit
     \/ /\ req[r].kind \notin AuditedKinds \/ backend = "postgres"
        /\ UNCHANGED <<audit, unlogged>>
  /\ req' = [req EXCEPT ![r] = Over(@, "done")]
  /\ UNCHANGED <<clock, authMode, devReads, published, withdrawnAt, keys, lastRefresh,
                 storeVars, backend, written>>

\* The connection closes and the request's task is dropped where it awaits,
\* which it does not between two steps of the key cache.
Disconnect(r) ==
  /\ req[r].pc \notin {"idle", "done", "dropped", "age", "stamp", "reread"}
  /\ req' = [req EXCEPT ![r] = Over(@, "dropped")]
  /\ UNCHANGED <<clock, authMode, devReads, published, withdrawnAt, keys, lastRefresh,
                 storeVars, adminVars>>

Outside == (Rotate \/ Tick) /\ UNCHANGED <<storeVars, adminVars>>

Next == \/ Outside
        \/ \E r \in Reqs : \/ Arrive(r) \/ Authenticate(r) \/ Handle(r)
                           \/ Audit(r) \/ Disconnect(r)

Spec == AdminInit /\ [][Next]_vars

-----------------------------------------------------------------------------
(* Properties.                                                               *)

\* The types of what the administrative routes keep, and rows that could only
\* be stored after validate() accepted them.
AdminTypeOK ==
  /\ StoreTypeOK
  /\ audit \subseteq [req : Reqs, principal : {"anonymous", "operator", "admin"},
                      result : {"success", "failure"}]
  /\ \A row \in {defaultRow, deviceRow} : row = Absent \/ Valid(row)

\* The log tells the truth about a write: whatever the interleaving and the
\* store's failures, a request that ran to its end is logged as a success
\* exactly when its write is in the override rows, unless the insert failed.
AuditTruth ==
  \A r \in Reqs :
    req[r].pc = "done" /\ req[r].kind \in WriteKinds /\ backend = "sqlite" /\ r \notin unlogged
      => (r \in written
            <=> \E row \in audit : row.req = r /\ row.result = "success")

\* Nobody writes an override whose token does not carry the admin role and was
\* not signed by a key the provider published at some time, through every
\* race between rotation, refresh and the two extractions.
WriteNeedsAdmin ==
  \A r \in written :
    authMode = "enabled" =>
      /\ req[r].token # NoToken /\ req[r].token.valid
      /\ "admin" \in req[r].token.roles \cup req[r].token.scp
      /\ req[r].token.kid \in published \/ withdrawnAt[req[r].token.kid] # Never

\* The log says who did what: an action that succeeded is not attributed to
\* "anonymous", the kind kept for failed authentication (audit.rs).
SuccessAttributed ==
  \A row \in audit : row.result = "success" => row.principal # "anonymous"
=============================================================================
