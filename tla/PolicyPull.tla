---------------------------- MODULE PolicyPull ----------------------------
(***************************************************************************)
(* The gateway's policy sources: the central policy pulled from the        *)
(* collector (middlewares/policyPull/puller.ts and state.ts), the local    *)
(* route policy file and its reloads (router/policyFileLoader.ts), and     *)
(* what a call reads of them: psOidc reads the access section, psRouter    *)
(* the route policy, and ps-telemetry the policy version, each at its own  *)
(* moment of the call.                                                     *)
(*                                                                         *)
(* A bundle is a record with its digest (the ETag the collector derives    *)
(* from it), its version and what each section looks like to the parser:   *)
(* "absent", "ok", "bad" (does not validate) or "v2" (a version this       *)
(* gateway does not know).  A route policy file is a text; the file may    *)
(* also be missing or unreadable.                                          *)
(*                                                                         *)
(* One event-loop turn is one action: what lies between two awaits.        *)
(***************************************************************************)
EXTENDS Naturals, FiniteSets

CONSTANTS
  Bundles,       \* the bundles the collector may serve
  Texts,         \* contents the route policy file may have
  BadTexts,      \* the ones parseRoutePolicyText refuses
  FileSet,       \* PS_ROUTE_POLICY_FILE is set
  RouterEnabled, \* PS_ROUTER_ENABLED is true (the built-in policy)
  Calls,         \* requests in flight
  Pulls,         \* pull() and reload() invocations that may overlap
  MaxEdits,      \* bound: changes of the central policy
  MaxFileEdits,  \* bound: changes of the file
  MaxFailures,   \* bound: pulls the collector does not answer
  None           \* undefined

VARIABLES
  served,    \* the bundle the collector serves now
  edits,     \* how often it changed (its revision)
  active,    \* state.ts active: the central policy in force
  failing,   \* the failure already logged
  rejected,  \* rejectedEtag
  pull,      \* each invocation of pullOnce
  serving,   \* startPolicyPull has returned: the gateway takes requests
  file,      \* what the file holds now
  fileEdits, \* how often it changed
  loaded,    \* policyDoc.ts: the loaded route policy
  badText,   \* the content last refused
  reload,    \* each invocation of reloadOnce
  call,      \* the calls
  failures   \* failed pulls so far

central == <<served, edits>>
puller == <<active, failing, rejected, pull, serving, failures>>
local == <<file, fileEdits, loaded, badText, reload>>
vars == <<central, puller, local, call>>

----------------------------------------------------------------------------
(* Parsing (state.ts).  parseEffective refuses an enforced section that is *)
(* of an unknown version or does not validate; parsePolicyBundle parses    *)
(* the tenant, then every team and project, and returns a policy only when *)
(* all of them parse.                                                      *)

SectionParses(s) == s \notin {"bad", "v2"}

parseEffective(e) == SectionParses(e.route) /\ SectionParses(e.access)

parsePolicyBundle(b) == parseEffective(b.tenant) /\ parseEffective(b.team)

Policy(b, rev) ==
  [etag |-> b.etag, version |-> b.version, rev |-> rev,
   route |-> b.tenant.route, access |-> b.tenant.access]

parseRoutePolicyText(t) == t \notin BadTexts

----------------------------------------------------------------------------
(* What the request path reads (state.ts accessors, index.ts mounting).    *)

FilePolicy == [from |-> "file", of |-> loaded.text]

activeRoutePolicy ==
  IF active # None /\ active.route # "absent"
  THEN [from |-> "central", of |-> active.version]
  ELSE IF loaded # None THEN FilePolicy ELSE None

centralAccessPolicy ==
  IF active # None /\ active.access # "absent" THEN active.etag ELSE None

activePolicyVersion ==
  IF active # None /\ active.version # None THEN [from |-> "central", of |-> active.version]
  ELSE IF loaded # None THEN FilePolicy ELSE None

----------------------------------------------------------------------------
(* A pull: pullOnce() up to its fetch, the collector's answer, and the     *)
(* rest.  pull() joins the running invocation, so only one is in flight.   *)

IdlePull == [at |-> "idle", etag |-> None, body |-> None, rev |-> 0]

Idle(p) == pull[p].at = "idle"

\* Mutant: a pull waits for no other.
MutOwnPullOnly(p) == Idle(p)

NoPullRunning(p) == \A q \in Pulls : Idle(q)

StartPull(p) ==
  /\ NoPullRunning(p)
  /\ pull' = [pull EXCEPT ![p] = [IdlePull EXCEPT !.at = "sent",
                !.etag = IF active = None THEN None ELSE active.etag]]
  /\ UNCHANGED <<central, local, call, active, failing, rejected, serving, failures>>

\* The collector compares If-None-Match with the digest of what it serves.
CollectorAnswers(p) ==
  /\ pull[p].at = "sent"
  /\ pull' = [pull EXCEPT ![p] =
       IF served.etag = @.etag THEN [@ EXCEPT !.at = "unchanged"]
       ELSE [@ EXCEPT !.at = "body", !.body = served, !.rev = edits]]
  /\ UNCHANGED <<central, local, call, active, failing, rejected, serving, failures>>

\* The end of pullOnce, common to every path: busy is cleared, and the
\* first pull lets the gateway serve.
Ends(p) ==
  /\ pull' = [pull EXCEPT ![p] = IdlePull]
  /\ serving' = TRUE
  /\ UNCHANGED <<central, local, call>>

Unchanged304(p) ==
  /\ pull[p].at = "unchanged"
  /\ failing' = None
  /\ Ends(p)
  /\ UNCHANGED <<active, rejected, failures>>

\* A non-2xx answer, a network error or the 10 s abort.
PullFails(p, reason) ==
  /\ pull[p].at \in {"sent", "body", "unchanged"}
  /\ failures < MaxFailures
  /\ failures' = failures + 1
  /\ failing' = reason
  /\ Ends(p)
  /\ UNCHANGED <<active, rejected>>

KnownBad(b) == b.etag = rejected

SameRejected(p) ==
  /\ pull[p].at = "body" /\ KnownBad(pull[p].body)
  /\ Ends(p)
  /\ UNCHANGED <<active, failing, rejected, failures>>

Reject(p) ==
  /\ pull[p].at = "body" /\ ~KnownBad(pull[p].body)
  /\ ~parsePolicyBundle(pull[p].body)
  /\ rejected' = pull[p].body.etag
  /\ failing' = None
  /\ Ends(p)
  /\ UNCHANGED <<active, failures>>

Apply(p) ==
  /\ pull[p].at = "body" /\ ~KnownBad(pull[p].body)
  /\ parsePolicyBundle(pull[p].body)
  /\ active' = Policy(pull[p].body, pull[p].rev)
  /\ rejected' = None
  /\ failing' = None
  /\ Ends(p)
  /\ UNCHANGED failures

----------------------------------------------------------------------------
(* A reload of the file: SIGHUP or the interval timer start it; stat and   *)
(* readFile see the file at one moment; the text is judged after that.     *)

NoReloadRunning(p) == \A q \in Pulls : reload[q].at = "idle"

IdleReload == [at |-> "idle", text |-> None, rev |-> 0]

StartReload(p) ==
  /\ FileSet /\ serving
  /\ NoReloadRunning(p)
  /\ reload' = [reload EXCEPT ![p].at = "reading"]
  /\ UNCHANGED <<central, puller, call, file, fileEdits, loaded, badText>>

ReadFile(p) ==
  /\ reload[p].at = "reading"
  /\ reload' = [reload EXCEPT ![p] = [at |-> "read", text |-> file, rev |-> fileEdits]]
  /\ UNCHANGED <<central, puller, call, file, fileEdits, loaded, badText>>

\* A read that fails leaves text undefined, and so badText too.
JudgeFile(p) ==
  LET text == reload[p].text IN
  /\ reload[p].at = "read"
  /\ \/ /\ text \in {loaded.text, badText} \ {None}
        /\ UNCHANGED <<loaded, badText>>
     \/ /\ text \notin {loaded.text, badText, None} /\ parseRoutePolicyText(text)
        /\ loaded' = [text |-> text, rev |-> reload[p].rev]
        /\ badText' = None
     \/ /\ text = None \/ (text \notin {loaded.text, badText} /\ ~parseRoutePolicyText(text))
        /\ badText' = text
        /\ UNCHANGED loaded
  /\ reload' = [reload EXCEPT ![p] = IdleReload]
  /\ UNCHANGED <<central, puller, call, file, fileEdits>>

----------------------------------------------------------------------------
(* A call: authenticated, routed, answered, reported.                      *)

Authorise(c) ==
  /\ serving
  /\ call[c].at = "idle"
  /\ call' = [call EXCEPT ![c].at = "authorised", ![c].access = centralAccessPolicy]
  /\ UNCHANGED <<central, puller, local>>

\* psRouter as index.ts mounts it: with a policy file the provider is
\* activeRoutePolicy alone and a missing policy is a 503; without one the
\* built-in policy or a pass-through takes its place.
Route(c) ==
  /\ call[c].at = "authorised"
  /\ call' = [call EXCEPT ![c].at =
                IF FileSet /\ activeRoutePolicy = None THEN "refused" ELSE "routed",
              ![c].route =
                IF activeRoutePolicy # None \/ FileSet THEN activeRoutePolicy
                ELSE IF RouterEnabled THEN [from |-> "default", of |-> None] ELSE None]
  /\ UNCHANGED <<central, puller, local>>

\* withPolicyVersion, when the event is sent: after the answer, and for a
\* stream after its last chunk.
SendTelemetry(c) ==
  /\ call[c].at = "routed"
  /\ call' = [call EXCEPT ![c].at = "reported", ![c].version = activePolicyVersion]
  /\ UNCHANGED <<central, puller, local>>

----------------------------------------------------------------------------
(* The administrators.                                                     *)

EditPolicy ==
  /\ edits < MaxEdits
  /\ \E b \in Bundles \ {served} : served' = b
  /\ edits' = edits + 1
  /\ UNCHANGED <<puller, local, call>>

EditFile ==
  /\ FileSet /\ fileEdits < MaxFileEdits
  /\ \E t \in (Texts \cup {None}) \ {file} : file' = t
  /\ fileEdits' = fileEdits + 1
  /\ UNCHANGED <<central, puller, call, loaded, badText, reload>>

----------------------------------------------------------------------------
\* loadRoutePolicyFile has loaded a valid file before the first pull (the
\* gateway exits otherwise).
Init ==
  /\ served \in Bundles
  /\ edits = 0 /\ fileEdits = 0 /\ failures = 0
  /\ active = None /\ failing = None /\ rejected = None
  /\ pull = [p \in Pulls |-> IdlePull]
  /\ reload = [p \in Pulls |-> IdleReload]
  /\ serving = FALSE
  /\ file \in (IF FileSet THEN Texts \ BadTexts ELSE {None})
  /\ loaded = IF FileSet THEN [text |-> file, rev |-> 0] ELSE None
  /\ badText = None
  /\ call = [c \in Calls |-> [at |-> "idle", access |-> None, route |-> None, version |-> None]]

PullStep(p) ==
  \/ CollectorAnswers(p) \/ Unchanged304(p) \/ SameRejected(p) \/ Reject(p) \/ Apply(p)

ReloadStep(p) == ReadFile(p) \/ JudgeFile(p)

Next ==
  \/ \E p \in Pulls : StartPull(p) \/ PullStep(p) \/ StartReload(p) \/ ReloadStep(p)
  \/ \E p \in Pulls, reason \in {"http", "network"} : PullFails(p, reason)
  \/ \E c \in Calls : Authorise(c) \/ Route(c) \/ SendTelemetry(c)
  \/ EditPolicy \/ EditFile

Spec == Init /\ [][Next]_vars

----------------------------------------------------------------------------
(* Properties.                                                             *)

\* The type invariant of the policy sources' state.
TypeOK ==
  /\ served \in Bundles /\ edits \in 0..MaxEdits /\ fileEdits \in 0..MaxFileEdits
  /\ active = None \/ \E b \in Bundles, n \in 0..MaxEdits : active = Policy(b, n)
  /\ failing \in {None, "http", "network"}
  /\ rejected = None \/ \E b \in Bundles : rejected = b.etag
  /\ \A p \in Pulls : pull[p].at \in {"idle", "sent", "unchanged", "body"}
  /\ serving \in BOOLEAN /\ failures \in 0..MaxFailures
  /\ file \in Texts \cup {None} /\ badText \in Texts \cup {None}
  /\ loaded = None \/ loaded.text \in Texts
  /\ \A p \in Pulls : reload[p].at \in {"idle", "reading", "read"}
  /\ \A c \in Calls : call[c].at \in {"idle", "authorised", "routed", "refused", "reported"}

\* Fail-safe (puller.ts, policyFileLoader.ts): whatever the collector
\* serves and the file holds, a policy with a section that does not parse
\* (its teams included) is never in force, and a gateway that started with
\* a policy file never loses its route policy nor refuses a call for it.
LastGoodInForce ==
  /\ active # None => \E b \in Bundles : b.etag = active.etag
                        /\ {b.tenant.route, b.tenant.access, b.team.route, b.team.access}
                             \cap {"bad", "v2"} = {}
  /\ FileSet => loaded # None /\ loaded.text \notin BadTexts
  /\ \A c \in Calls : call[c].at # "refused"

\* Overlapping polls (busy in pull() and reload()): the policy in force is
\* never replaced by one the collector served, or the file held, earlier.
InOrderStep ==
  /\ active # None => active'.rev >= active.rev
  /\ loaded # None => loaded'.rev >= loaded.rev

=============================================================================
