------------------------------ MODULE HostService ------------------------------
(***************************************************************************)
(* The browser host's view of the wallet service, and the service itself:   *)
(* WalletHost (crates/hns-wallet-host/src/lib.rs) and WalletService         *)
(* (crates/hns-wallet-service/src/lib.rs) with the ProviderCore it owns,    *)
(* joined by two ordered pipes.  The host keeps a copy of what the service  *)
(* decided: the revision of each authority, the binding (wallet session and *)
(* permission generation) its pages act under, the prompts it may show and  *)
(* a cursor into each page's events.  Whatever contradicts that copy        *)
(* poisons the channel and throws all of it away.                           *)
(*                                                                         *)
(* The host's state is one record and the handlers are operators from host  *)
(* state to host state.  Frame headers (session ids, channel sequence,      *)
(* request ids) restate the order of the pipes and are left out; so are     *)
(* method parameters, summaries and identity reuse, which random ids rule   *)
(* out: the n-th request carries n as its id and nonce.  Both ends read the *)
(* same clock.                                                              *)
(***************************************************************************)
EXTENDS ProviderCore, Sequences, TLC

CONSTANT Setups    \* configurations, one of which is fixed for a behaviour: the
                   \* pages, methods and events in use, MAX_PENDING_REQUESTS, and
                   \* bounds on requests, events, time, revisions, generations
                   \* and wallet sessions

\* What the host tells apart in an event.  A disconnect carries a reason; "gone"
\* is a changed navigation or policy, "other" every event about wallet data.
Disconnects == {"revoked", "expired", "gone", "session", "restarted"}
Payloads == Disconnects \cup {"connect", "permissions", "modules", "locked", "other"}

ASSUME SetupAssumption ==
    Setups \subseteq [handles : SUBSET Handles, methods : SUBSET Methods,
                     payloads : SUBSET Payloads, inflight : Nat, requests : Nat,
                     events : Nat, time : 0..MaxTime, revisions : 0..MaxRevision,
                     generations : 0..MaxGeneration, sessions : 0..MaxSession]

ASSUME BindingAssumption == None \notin [revision : Nat, session : Nat, generation : Nat]

VARIABLES
    setup,        \* the configuration
    host,         \* the WalletHost
    toService,    \* requests on the pipe
    toHost,       \* responses and events on the pipe
    spending,     \* WalletService.pending: prompts awaiting a decision
    sequences,    \* WalletService.event_sequences
    sent,         \* requests sent so far
    emitted       \* events emitted so far

provider == <<clock, authority, session, locked, pending, replay, rate,
              permission, reply, standing>>
allVars == <<setup, provider, host, toService, toHost, spending, sequences, sent, emitted>>

Phases == {"detached", "registering", "active", "replacing", "revoking", "stale"}

NoSequences == [k \in Handles \X (1..MaxRevision) |-> 0]

(***************************************************************************)
(* The host: clearing what was derived from the service.                    *)
(***************************************************************************)

\* A slip: the capabilities outlive the binding they were read under.
InvalidateDerivedKeepingCaps(hs, H) ==
    [hs EXCEPT !.binding = [h \in Handles |-> IF h \in H THEN None ELSE @[h]],
               !.prompts = {p \in @ : p.id.handle \notin H},
               !.cursors = {c \in @ : c.handle \notin H}]


InvalidateDerived(hs, H) ==
    [hs EXCEPT !.binding = [h \in Handles |-> IF h \in H THEN None ELSE @[h]],
               !.caps = @ \ H,
               !.prompts = {p \in @ : p.id.handle \notin H},
               !.cursors = {c \in @ : c.handle \notin H}]

InvalidateScope(hs, h) ==
    [InvalidateDerived(hs, {g \in Handles : /\ hs.auth[g] # None
                                            /\ hs.auth[g].scope = hs.auth[h].scope})
        EXCEPT !.cursors = {}]

InvalidateCapabilities(hs) == [hs EXCEPT !.caps = {}]

InvalidateAll(hs) == InvalidateDerived(hs, Handles)

MarkStale(hs, h) ==
    LET clean == InvalidateDerived(hs, {h})
    IN  IF hs.auth[h] = None \/ hs.auth[h].phase \in {"detached", "registering"}
        THEN clean
        ELSE [clean EXCEPT !.auth[h].phase = "stale"]

\* invalidate_service_state(): facts survive, a replacement in flight included.
Detached(a) ==
    IF a = None \/ a.phase = "revoking" THEN None
    ELSE [a EXCEPT !.phase = "detached", !.revision = 0, !.next = 0,
                   !.until = IF a.phase = "replacing" THEN a.next ELSE @]

Invalidated(hs) ==
    [InvalidateAll(hs) EXCEPT !.auth = [h \in Handles |-> Detached(@[h])],
                              !.inflight = {}]

Poison(hs) == [Invalidated(hs) EXCEPT !.channel = "failed"]

ActiveAt(hs, h, r) ==
    /\ hs.auth[h] # None
    /\ hs.auth[h].phase = "active"
    /\ hs.auth[h].revision = r

ExpiredAt(hs, h) == hs.auth[h].until <= clock

(***************************************************************************)
(* The host: applying a response.  q is the request it answers, b its body. *)
(***************************************************************************)


InstallCapabilities(hs, h, r, new) ==
    LET current == hs.binding[h]
        base == IF current = None THEN hs
                ELSE IF current.session # new.session THEN InvalidateAll(hs)
                ELSE IF new.generation > current.generation THEN InvalidateScope(hs, h)
                ELSE hs
    IN  IF \/ ~ActiveAt(hs, h, r)
           \/ /\ current # None
              /\ IF current.session # new.session
                 THEN current.generation # new.generation
                 ELSE new.generation < current.generation
        THEN Poison(hs)
        ELSE [base EXCEPT !.binding[h] = new, !.caps = @ \cup {h}]

\* Methods the host expects to prompt (approval_required_method): the service's
\* list without hns_updateName.
HostExpectsApproval(m) == m \in {"grant", "module", "value"}

InstallApproval(hs, q, b) ==
    LET h == q.handle
        live == {p \in hs.prompts : p.expires > clock}
    IN  IF \/ Cardinality(live) >= MaxPending
           \/ b.prompt.expires <= clock
           \/ ~ActiveAt(hs, h, q.revision)
           \/ hs.binding[h] # b.binding
        THEN Poison(hs)
        ELSE [hs EXCEPT !.prompts = live \cup
                 {[id |-> b.prompt.id, binding |-> b.binding,
                   expires |-> b.prompt.expires, deciding |-> 0]}]

ApplyBinding(hs, h, r, m, new) ==
    LET current == hs.binding[h]
        advance(base) == [base EXCEPT !.binding[h] = new, !.caps = @ \ {h}]
    IN  IF ~ActiveAt(hs, h, r) \/ current = None THEN Poison(hs)
        ELSE IF m \in {"grant", "revoke"}
        THEN IF new.session = current.session /\ new.generation = current.generation + 1
             THEN advance(InvalidateScope(hs, h)) ELSE Poison(hs)
        ELSE IF m = "lock"
        THEN IF new.session # current.session /\ new.generation = current.generation
             THEN advance(InvalidateAll(hs)) ELSE Poison(hs)
        ELSE IF new # current THEN Poison(hs)
        ELSE IF m = "module" THEN InvalidateCapabilities(hs) ELSE hs

\* validate_deciding_approval()
Deciding(hs, q) ==
    \E p \in hs.prompts : p.id = q.id /\ p.expires > clock /\ p.deciding = q.n

Forget(hs, id) == [hs EXCEPT !.prompts = {p \in @ : p.id # id}]

\* The failures that are taken for a broken channel: of those the host meets
\* with an honest service, UnsupportedCapability and Replay.
Fatal == {"unsupported", "replay"}

ApplyFailure(hs, q, code) ==
    LET base == CASE q.class = "register" ->
                       [InvalidateDerived(hs, {q.handle}) EXCEPT !.auth[q.handle] = None]
                  [] q.class \in {"replace", "revoke"} ->
                       [InvalidateDerived(hs, {q.handle}) EXCEPT
                            !.auth[q.handle] = IF @ = None THEN None
                                ELSE [@ EXCEPT !.phase = "stale", !.revision = q.revision]]
                  [] q.class = "decide" -> Forget(hs, q.id)
                  [] OTHER -> hs
    IN  IF code \in Fatal THEN Poison(hs)
        ELSE IF code = "stale" /\ q.class # "wallet" THEN MarkStale(base, q.handle) ELSE base

\* A slip: a replaced authority goes on under the revision it was sent with.
ApplyAuthorityAsSent(hs, q, b) ==
    LET h == q.handle
        a == hs.auth[h]
    IN  CASE q.class = "register" /\ b.kind = "registered" /\ a.phase = "registering" ->
               [hs EXCEPT !.auth[h].phase = "active", !.auth[h].revision = 1]
          [] q.class = "replace" /\ b.kind = "replaced" /\ a.phase = "replacing" ->
               [hs EXCEPT !.auth[h].phase = "active", !.auth[h].until = a.next,
                          !.auth[h].next = 0]
          [] q.class = "revoke" /\ b.kind = "revoked" ->
               [InvalidateDerived(hs, {h}) EXCEPT !.auth[h] = None]
          [] OTHER -> Poison(hs)

ApplyAuthority(hs, q, b) ==
    LET h == q.handle
        a == hs.auth[h]
    IN  CASE q.class = "register" /\ b.kind = "registered" /\ a.phase = "registering" ->
               [hs EXCEPT !.auth[h].phase = "active", !.auth[h].revision = 1]
          [] q.class = "replace" /\ b.kind = "replaced" /\ a.phase = "replacing"
                /\ a.revision = q.revision ->
               [hs EXCEPT !.auth[h].phase = "active", !.auth[h].revision = q.revision + 1,
                          !.auth[h].until = a.next, !.auth[h].next = 0]
          [] q.class = "revoke" /\ b.kind = "revoked" /\ a.phase = "revoking"
                /\ a.revision = q.revision ->
               [InvalidateDerived(hs, {h}) EXCEPT !.auth[h] = None]
          [] OTHER -> Poison(hs)

ApplyResponse(hs, q, b) ==
    IF b.kind = "failure" THEN ApplyFailure(hs, q, b.code) ELSE
    CASE q.class \in {"register", "replace", "revoke"} -> ApplyAuthority(hs, q, b)
      [] q.class = "capabilities" /\ b.kind = "capabilities" ->
           InstallCapabilities(hs, q.handle, q.revision, b.binding)
      [] q.class = "provider" /\ b.kind = "result" /\ ~HostExpectsApproval(q.method) ->
           ApplyBinding(hs, q.handle, q.revision, q.method, b.binding)
      [] q.class = "provider" /\ b.kind = "prompt" /\ HostExpectsApproval(q.method) ->
           InstallApproval(hs, q, b)
      [] q.class = "decide" /\ q.approve /\ b.kind = "result" ->
           IF Deciding(hs, q)
           THEN Forget(ApplyBinding(hs, q.handle, q.revision, q.id.method, b.binding), q.id)
           ELSE Poison(hs)
      [] q.class = "decide" /\ ~q.approve /\ b.kind = "rejected" ->
           IF Deciding(hs, q) THEN Forget(hs, q.id) ELSE Poison(hs)
      [] q.class = "wallet" /\ b.kind = "wallet" -> InvalidateAll(hs)
      [] OTHER -> Poison(hs)

\* accept_response(): the request must still be pending and its authority known
\* and unexpired.
AcceptResponse(hs, q, b) ==
    IF q.n \notin hs.inflight \/ (q.class # "wallet" /\ hs.auth[q.handle] = None)
    THEN Poison(hs)
    ELSE IF q.class # "wallet" /\ ExpiredAt(hs, q.handle)
    THEN Poison(MarkStale(hs, q.handle))
    ELSE [ApplyResponse(hs, q, b) EXCEPT !.inflight = @ \ {q.n}]

(***************************************************************************)
(* The host: applying an event.                                             *)
(***************************************************************************)

Cursor(hs, h, b) ==
    LET C == {c \in hs.cursors : c.handle = h /\ c.binding = b}
    IN  IF C = {} THEN 0 ELSE (CHOOSE c \in C : TRUE).at

AcceptEvent(hs, e) ==
    LET h == e.handle
        a == hs.auth[h]
        current == hs.binding[h]
        advanced == /\ e.binding.session = current.session
                    /\ e.binding.generation = current.generation + 1
                    /\ e.payload \in {"connect", "permissions", "revoked"}
        rotated == /\ e.binding.session # current.session
                   /\ e.binding.generation = current.generation
                   /\ e.payload \in {"locked", "session"}
        rebound(base) == [base EXCEPT !.binding[h] = e.binding, !.caps = @ \ {h}]
        bound == IF e.binding = current THEN hs
                 ELSE rebound(IF rotated THEN InvalidateAll(hs) ELSE InvalidateScope(hs, h))
        cleared == IF e.payload = "permissions" THEN rebound(InvalidateScope(bound, h))
                   ELSE bound
        counted == [cleared EXCEPT !.cursors =
                       {c \in @ : ~(c.handle = h /\ c.binding = e.binding)} \cup
                       {[handle |-> h, binding |-> e.binding, at |-> e.sequence]}]
    IN  IF \/ a = None \/ a.phase # "active" \/ current = None
           \/ e.binding.revision # a.revision
           \/ ExpiredAt(hs, h) /\ e.payload # "expired"
           \/ e.binding # current /\ ~advanced /\ ~rotated
           \/ e.payload = "restarted"
           \/ e.binding.generation = 0 /\ e.payload \notin Disconnects
           \/ e.sequence # Cursor(bound, h, e.binding) + 1
        THEN Poison(hs)
        ELSE CASE e.payload \in {"revoked", "expired", "gone"} -> MarkStale(counted, h)
               [] e.payload \in {"session", "locked"} -> InvalidateAll(counted)
               [] e.payload = "modules" -> InvalidateCapabilities(counted)
               [] OTHER -> counted

\* The requests on the way, in either direction.
InFlight ==
    {toService[i] : i \in DOMAIN toService} \cup
    {toHost[i].request : i \in {j \in DOMAIN toHost : toHost[j].frame = "response"}}

-----------------------------------------------------------------------------
\* A new host and service over idle pipes.
HostRest ==
    /\ host = [channel |-> "ready", auth |-> [h \in Handles |-> None],
               binding |-> [h \in Handles |-> None], caps |-> {}, prompts |-> {},
               cursors |-> {}, inflight |-> {}, issued |-> {}]
    /\ toService = <<>>
    /\ toHost = <<>>
    /\ spending = {}
    /\ sequences = NoSequences
    /\ sent = 0
    /\ emitted = 0

HostInit == Init /\ setup \in Setups /\ HostRest

(***************************************************************************)
(* The host's operations.  Each queues one request (enqueue).               *)
(***************************************************************************)

\* History: a request sent over idle pipes remembers how many events there had
\* been.
Calm == IF toService = <<>> /\ toHost = <<>> THEN emitted + 1 ELSE 0

Send(hs, q) ==
    /\ host.channel = "ready"
    /\ Cardinality(host.inflight) < setup.inflight
    /\ sent < setup.requests
    /\ sent' = sent + 1
    /\ host' = [hs EXCEPT !.inflight = @ \cup {sent + 1}]
    /\ toService' = Append(toService, [q EXCEPT !.n = sent + 1, !.calm = Calm])
    /\ UNCHANGED <<provider, toHost, spending, sequences, emitted>>

Request(class, h, r) ==
    [class |-> class, handle |-> h, revision |-> r, scope |-> None, until |-> 0,
     method |-> None, id |-> None, approve |-> FALSE, lock |-> FALSE, n |-> 0, calm |-> 0]

\* active_authority()
Active(h) ==
    /\ host.auth[h] # None
    /\ ~ExpiredAt(host, h)
    /\ host.auth[h].phase = "active"

HostRegister(h, s, u) ==
    /\ h \notin host.issued
    /\ u > clock
    /\ Send([host EXCEPT !.issued = @ \cup {h},
                         !.auth[h] = [scope |-> s, until |-> u, phase |-> "registering",
                                      revision |-> 0, next |-> 0]],
            [Request("register", h, 1) EXCEPT !.scope = s, !.until = u])

HostRegisterDetached(h) ==
    /\ host.auth[h] # None
    /\ host.auth[h].phase = "detached"
    /\ host.auth[h].until > clock
    /\ Send([host EXCEPT !.auth[h].phase = "registering"],
            [Request("register", h, 1) EXCEPT !.scope = host.auth[h].scope,
                                              !.until = host.auth[h].until])

HostReplace(h, u) ==
    /\ Active(h)
    /\ u > clock
    /\ u >= host.auth[h].until
    /\ Send([InvalidateDerived(host, {h}) EXCEPT !.auth[h].phase = "replacing",
                                                 !.auth[h].next = u],
            [Request("replace", h, host.auth[h].revision) EXCEPT !.until = u])

HostRevoke(h) ==
    /\ Active(h)
    /\ Send([InvalidateDerived(host, {h}) EXCEPT !.auth[h].phase = "revoking"],
            Request("revoke", h, host.auth[h].revision))

HostCapabilities(h) ==
    /\ Active(h)
    /\ Send(host, Request("capabilities", h, host.auth[h].revision))

HostProvider(h, m) ==
    /\ Active(h)
    /\ host.binding[h] # None
    /\ h \in host.caps
    /\ Send(host, [Request("provider", h, host.auth[h].revision) EXCEPT !.method = m])

HostDecide(p, approve) ==
    /\ p.expires > clock
    /\ p.deciding = 0
    /\ Active(p.id.handle)
    /\ host.auth[p.id.handle].revision = p.id.revision
    /\ host.binding[p.id.handle] = p.binding
    /\ Send([host EXCEPT !.prompts = (@ \ {p}) \cup {[p EXCEPT !.deciding = sent + 1]}],
            [Request("decide", p.id.handle, p.id.revision) EXCEPT !.id = p.id,
                                                                  !.approve = approve])

HostWallet(l) ==
    /\ session < setup.sessions
    /\ Send(host, [Request("wallet", None, 0) EXCEPT !.lock = l])

\* What any operation on an expired authority does before it fails.
HostExpires(h) ==
    /\ host.channel = "ready"
    /\ host.auth[h] # None
    /\ ExpiredAt(host, h)
    /\ host' = MarkStale(host, h)
    /\ UNCHANGED <<provider, toService, toHost, spending, sequences, sent, emitted>>

\* The answers of cancelled requests are no longer expected.
HostDiscard(h) ==
    /\ host.auth[h] # None
    /\ host.auth[h].phase \in {"detached", "stale"} \/ ExpiredAt(host, h)
    /\ host' = [InvalidateDerived(host, {h}) EXCEPT
                   !.auth[h] = None,
                   !.inflight = @ \ {q.n : q \in {f \in InFlight :
                                       f.class # "wallet" /\ f.handle = h}}]
    /\ UNCHANGED <<provider, toService, toHost, spending, sequences, sent, emitted>>

\* One frame off the pipe.
HostAccept ==
    /\ toHost # <<>>
    /\ toHost' = Tail(toHost)
    /\ LET f == Head(toHost) IN
       host' = IF host.channel = "failed" THEN host
               ELSE IF f.frame = "event" THEN AcceptEvent(host, f)
               ELSE AcceptResponse(host, f.request, f.body)
    /\ UNCHANGED <<provider, toService, spending, sequences, sent, emitted>>

(***************************************************************************)
(* The service.  It takes one request at a time and answers it; prompts     *)
(* past their expiry are pruned first.                                      *)
(***************************************************************************)

\* provider_binding()
BindingOf(h) ==
    [revision |-> authority[h].revision, session |-> session,
     generation |-> permission[authority[h].scope].generation]

Body(kind, b) == [kind |-> kind, binding |-> b]
Failure(code) == [kind |-> "failure", code |-> code]

Answer(q, body) ==
    /\ toService' = Tail(toService)
    /\ toHost' = Append(toHost, [frame |-> "response", request |-> q, body |-> body])
    /\ UNCHANGED <<host, sent, emitted>>

LiveSpending == {p \in spending : p.expires > clock}

\* A request that fails and leaves the service as it is.
Fails(q, code) ==
    /\ Answer(q, Failure(code))
    /\ spending' = LiveSpending
    /\ UNCHANGED <<provider, sequences>>

DropServed(h) ==
    /\ spending' = {p \in LiveSpending : p.id.handle # h}
    /\ sequences' = [k \in DOMAIN sequences |-> IF k[1] = h THEN 0 ELSE sequences[k]]

ServeRegister(q) ==
    /\ q.class = "register"
    /\ IF CanRegister(q.handle, q.until)
       THEN /\ RegisterAuthority(q.handle, q.scope, q.until)
            /\ Answer(q, Body("registered", None))
       ELSE /\ IF q.until > clock THEN PruneAuthorities ELSE UNCHANGED provider
            /\ Answer(q, Failure("stale"))
    /\ spending' = LiveSpending
    /\ UNCHANGED sequences

ServeReplace(q) ==
    /\ q.class = "replace"
    /\ q.revision < setup.revisions
    /\ IF AuthorityOK(q.handle, q.revision) /\ q.until > clock
       THEN /\ ReplaceAuthority(q.handle, q.revision, q.until)
            /\ DropServed(q.handle)
            /\ Answer(q, Body("replaced", None))
       ELSE Fails(q, "stale")

ServeRevoke(q) ==
    /\ q.class = "revoke"
    /\ IF authority[q.handle] # None /\ authority[q.handle].revision = q.revision
       THEN /\ RevokeAuthority(q.handle, q.revision)
            /\ DropServed(q.handle)
            /\ Answer(q, Body("revoked", None))
       ELSE Fails(q, "stale")

ServeCapabilities(q) ==
    /\ q.class = "capabilities"
    /\ IF AuthorityOK(q.handle, q.revision)
       THEN /\ Answer(q, Body("capabilities", BindingOf(q.handle)))
            /\ spending' = LiveSpending
            /\ UNCHANGED <<provider, sequences>>
       ELSE Fails(q, "stale")

\* rotate_wallet_session(); without entropy the session stays and the wallet is
\* left locked.
Rotate(w, l) ==
    /\ session' = w
    /\ locked' = l
    /\ DropAll
    /\ reply' = NoReply
    /\ spending' = {}
    /\ sequences' = NoSequences
    /\ UNCHANGED <<clock, authority, permission>>

\* What the runtime may answer with when it does not serve a call.
RuntimeFailures == {"other", "unsupported"}

ServeWallet(q) ==
    /\ q.class = "wallet"
    /\ session < setup.sessions
    /\ \/ Rotate(session + 1, q.lock) /\ Answer(q, Body("wallet", None))
       \/ Rotate(session, TRUE) /\ Answer(q, Failure("other"))
       \/ \E code \in RuntimeFailures : Fails(q, code)

(***************************************************************************)
(* provider_request(): request() of the provider and what it leads to.      *)
(***************************************************************************)

\* Permissions the runtime cannot grant are refused before anything is checked.
ServeUnsupported(q) ==
    /\ q.class = "provider"
    /\ q.method = "grant"
    /\ Fails(q, "unsupported")

\* The request is refused before its nonce is consumed.
ServeInadmissible(q) ==
    /\ q.class = "provider"
    /\ ~Admissible(q.handle, q.revision, q.method)
    /\ Fails(q, IF AuthorityOK(q.handle, q.revision) THEN "other" ELSE "stale")

\* The nonce is fresh, so that the table is full: reported as a replay.
ServeReplayed(q) ==
    /\ q.class = "provider"
    /\ RequestReplayed(q.handle, q.revision, q.n, q.method)
    /\ spending' = LiveSpending
    /\ Answer(q, Failure("replay"))
    /\ UNCHANGED sequences

\* A request of the host's whose nonce is consumed.
Consumed(q) ==
    /\ q.class = "provider"
    /\ Admissible(q.handle, q.revision, q.method)
    /\ NonceFree(q.handle, q.n)
    /\ UNCHANGED <<clock, authority>>
    /\ reply' = NoReply

\* A page without permission resets every page's event sequence.
ServeRefused(q) ==
    /\ Consumed(q)
    /\ ~Allowed(q.handle, q.method)
    /\ ConsumeRequest(q.handle, q.n, q.method)
    /\ sequences' = IF locked /\ ~AllowedWhileLocked(q.method) THEN sequences ELSE NoSequences
    /\ spending' = LiveSpending
    /\ Answer(q, Failure("other"))
    /\ UNCHANGED <<session, locked, permission, pending, standing>>

\* Reads, and calls the runtime may fail.
ServeRead(q) ==
    /\ Consumed(q)
    /\ Allowed(q.handle, q.method)
    /\ q.method \in {"status", "read", "permissions"}
    /\ ConsumeRequest(q.handle, q.n, q.method)
    /\ sequences' = IF q.method = "permissions" /\ ~InForce(authority[q.handle].scope)
                    THEN NoSequences ELSE sequences
    /\ spending' = LiveSpending
    /\ \/ Answer(q, Body("result", BindingOf(q.handle)))
       \/ \E code \in RuntimeFailures : Answer(q, Failure(code))
    /\ UNCHANGED <<session, locked, permission, pending, standing>>

\* wallet_revokePermissions drops the prompts of every scope.
ServeRevokePermissions(q) ==
    LET s == authority[q.handle].scope
        g == permission[s].generation
    IN  /\ Consumed(q)
        /\ Allowed(q.handle, q.method)
        /\ q.method = "revoke"
        /\ g < setup.generations
        /\ ConsumeRequest(q.handle, q.n, q.method)
        /\ IF CanRevoke(s)
           THEN /\ WriteTombstone(s)
                /\ spending' = {}
                /\ sequences' = NoSequences
                /\ Answer(q, Body("result", [BindingOf(q.handle) EXCEPT !.generation = g + 1]))
           ELSE /\ spending' = LiveSpending
                /\ Answer(q, Failure("other"))
                /\ UNCHANGED <<permission, pending, standing, sequences>>
        /\ UNCHANGED <<session, locked>>

ServeLock(q) ==
    /\ Consumed(q)
    /\ Allowed(q.handle, q.method)
    /\ q.method = "lock"
    /\ session < setup.sessions
    /\ \/ /\ Rotate(session + 1, TRUE)
          /\ Answer(q, Body("result", [BindingOf(q.handle) EXCEPT !.session = session + 1]))
       \/ Rotate(session, TRUE) /\ Answer(q, Failure("other"))

\* The prompt is put before the host, unless its summary cannot be prepared; the
\* provider then rejects its approval again.
ServePrompt(q) ==
    LET h == q.handle
        id == ApprovalId(h, q.n, q.method)
        g == permission[authority[h].scope].generation
    IN  /\ Consumed(q)
        /\ Allowed(h, q.method)
        /\ NeedsApproval(q.method)
        /\ ConsumeRequest(h, q.n, q.method)
        /\ \/ /\ Cardinality(LivePending) < MaxPending
              /\ Cardinality(LiveSpending) < MaxPending
              /\ pending' = LivePending \cup {[id |-> id, generation |-> g, expires |-> Expiry]}
              /\ standing' = standing \cup {id}
              /\ spending' = LiveSpending \cup
                     {[id |-> id, binding |-> BindingOf(h), expires |-> Expiry]}
              /\ Answer(q, [kind |-> "prompt", binding |-> BindingOf(h),
                            prompt |-> [id |-> id, expires |-> Expiry]])
           \/ /\ pending' = LivePending
              /\ spending' = LiveSpending
              /\ \E code \in RuntimeFailures : Answer(q, Failure(code))
              /\ UNCHANGED standing
        /\ UNCHANGED <<session, locked, permission, sequences>>

(***************************************************************************)
(* approval_decision().                                                     *)
(***************************************************************************)

\* The prompt as the service kept it, and the provider's approval behind it.
Decidable(q, p) ==
    /\ p \in LiveSpending
    /\ p.id = q.id
    /\ p.id.handle = q.handle
    /\ p.id.revision = q.revision
    /\ AuthorityOK(q.handle, q.revision)
    /\ p.binding = BindingOf(q.handle)

ServeStaleDecision(q) ==
    /\ q.class = "decide"
    /\ ~\E p \in spending, a \in pending :
           /\ Decidable(q, p)
           /\ a.id = q.id
           /\ Answerable(a, q.handle, q.revision)
           /\ q.approve => Permitted(a.id.scope, a.id.method)
    /\ Fails(q, IF (\E p \in LiveSpending : p.id = q.id) /\ ~AuthorityOK(q.handle, q.revision)
                THEN "stale" ELSE "other")

\* A rejection, and an approval whose account or names have changed since the
\* prompt.
ServeReject(q) ==
    /\ q.class = "decide"
    /\ \E p \in spending, a \in pending :
           /\ Decidable(q, p)
           /\ a.id = q.id
           /\ q.approve => q.id.method = "grant"
           /\ Reject(a, q.handle, q.revision)
           /\ spending' = LiveSpending \ {p}
    /\ Answer(q, IF q.approve THEN Failure("other") ELSE Body("rejected", None))
    /\ UNCHANGED sequences

\* An approved call runs, or fails in the runtime; the prompt is gone either way.
ServeApprove(q) ==
    /\ q.class = "decide"
    /\ q.approve
    /\ q.id.method # "grant"
    /\ \E p \in spending, a \in pending :
           /\ Decidable(q, p)
           /\ a.id = q.id
           /\ Approve(a, q.handle, q.revision)
           /\ spending' = LiveSpending \ {p}
    /\ \/ Answer(q, Body("result", BindingOf(q.handle)))
       \/ \E code \in RuntimeFailures : Answer(q, Failure(code))
    /\ UNCHANGED sequences

\* What the prompt asked for can no longer be granted; the prompt is gone.
ServeUngrantable(q) ==
    /\ q.class = "decide"
    /\ q.approve
    /\ q.id.method = "grant"
    /\ \E p \in spending, a \in pending :
           /\ Decidable(q, p)
           /\ a.id = q.id
           /\ Approve(a, q.handle, q.revision)
           /\ spending' = LiveSpending \ {p}
    /\ Answer(q, Failure("unsupported"))
    /\ UNCHANGED sequences

\* An approved grant writes the next generation and drops the prompts of every
\* scope.
ServeGrant(q) ==
    LET s == q.id.scope
        g == permission[s].generation
    IN  /\ q.class = "decide"
        /\ q.approve
        /\ q.id.method = "grant"
        /\ g < setup.generations
        /\ \E p \in spending, a \in pending :
               /\ Decidable(q, p)
               /\ a.id = q.id
               /\ Answerable(a, q.handle, q.revision)
        /\ \E c \in Grants : WriteGrant(s, c, 0)
        /\ reply' = [call |-> "approve", id |-> q.id]
        /\ spending' = {}
        /\ sequences' = NoSequences
        /\ Answer(q, Body("result", [BindingOf(q.handle) EXCEPT !.generation = g + 1]))
        /\ UNCHANGED <<clock, authority, session, locked, replay, rate>>

(***************************************************************************)
(* Events, time and restarts.                                               *)
(***************************************************************************)

\* emit_event(): without permission only a disconnect may go out, and its
\* sequence is retired with it; an event that cannot go out resets every page's.
EmitEvent(h, payload) ==
    LET r == authority[h].revision
        n == sequences[<<h, r>>] + 1
        granted == InForce(authority[h].scope)
    IN  /\ emitted < setup.events
        /\ authority[h] # None
        /\ emitted' = emitted + 1
        /\ IF AuthorityOK(h, r) /\ (granted \/ payload \in Disconnects)
           THEN /\ sequences' = [sequences EXCEPT ![<<h, r>>] = IF granted THEN n ELSE 0]
                /\ toHost' = Append(toHost,
                       [frame |-> "event", handle |-> h, binding |-> BindingOf(h),
                        payload |-> payload, sequence |-> n])
           ELSE sequences' = NoSequences /\ UNCHANGED toHost
        /\ UNCHANGED <<provider, host, toService, spending, sent>>

Tick(t) ==
    /\ Snapshot(t)
    /\ UNCHANGED <<host, toService, toHost, spending, sequences, sent, emitted>>

\* The host starts a new service process over the same store: restart(), the
\* exchange of hellos, and new pipes.
HostRestart ==
    /\ session < setup.sessions
    /\ Restart(clock)
    /\ host' = [Invalidated(host) EXCEPT !.channel = "ready"]
    /\ toService' = <<>>
    /\ toHost' = <<>>
    /\ spending' = {}
    /\ sequences' = NoSequences
    /\ UNCHANGED <<sent, emitted>>

-----------------------------------------------------------------------------
Serve ==
    /\ toService # <<>>
    /\ LET q == Head(toService) IN
       \/ ServeRegister(q) \/ ServeReplace(q) \/ ServeRevoke(q)
       \/ ServeCapabilities(q) \/ ServeWallet(q)
       \/ ServeUnsupported(q) \/ ServeInadmissible(q) \/ ServeReplayed(q)
       \/ ServeRefused(q) \/ ServeRead(q)
       \/ ServeRevokePermissions(q) \/ ServeLock(q) \/ ServePrompt(q)
       \/ ServeStaleDecision(q) \/ ServeReject(q) \/ ServeApprove(q)
       \/ ServeUngrantable(q) \/ ServeGrant(q)

HostStep ==
    \/ \E h \in setup.handles :
           \/ \E s \in Scopes, u \in 0..setup.time : HostRegister(h, s, u)
           \/ HostRegisterDetached(h)
           \/ \E u \in 0..setup.time : HostReplace(h, u)
           \/ HostRevoke(h)
           \/ HostCapabilities(h)
           \/ \E m \in setup.methods : HostProvider(h, m)
           \/ HostExpires(h)
           \/ HostDiscard(h)
           \/ \E e \in setup.payloads : EmitEvent(h, e)
    \/ \E p \in host.prompts, a \in BOOLEAN : HostDecide(p, a)
    \/ \E l \in BOOLEAN : HostWallet(l)
    \/ HostAccept
    \/ Serve
    \/ \E t \in 0..setup.time : Tick(t)
    \/ HostRestart

HostNext == HostStep /\ UNCHANGED setup

HostSpec == HostInit /\ [][HostNext]_allVars

-----------------------------------------------------------------------------
Bindings == [revision : Nat, session : Nat, generation : Nat]
HostAuthorities == [scope : Scopes, until : Nat, phase : Phases, revision : Nat, next : Nat]

\* The host's record and the service's tables have their types.
HostTypeOK ==
    /\ host.channel \in {"ready", "failed"}
    /\ host.auth \in [Handles -> HostAuthorities \cup {None}]
    /\ host.binding \in [Handles -> Bindings \cup {None}]
    /\ host.caps \subseteq Handles
    /\ host.inflight \subseteq 1..setup.requests
    /\ \A p \in host.prompts : p.binding \in Bindings /\ p.deciding \in 0..setup.requests
    /\ \A p \in spending : p.binding \in Bindings
    /\ \A h \in host.caps : host.binding[h] # None    \* capabilities carry it

\* Nothing is on its way between the two.
Quiet == host.channel = "ready" /\ toService = <<>> /\ toHost = <<>>

\* With nothing on its way, an authority the host takes for active is the one
\* the service has, at the same revision, and the binding the host would send
\* requests and decisions under is the service's own: every grant, revocation,
\* lock and failure of any page has reached every page it concerns.
HostAgrees ==
    Quiet => \A h \in Handles :
        host.auth[h] # None /\ host.auth[h].phase = "active" /\ ~ExpiredAt(host, h) =>
            /\ AuthorityOK(h, host.auth[h].revision)
            /\ authority[h].scope = host.auth[h].scope
            /\ authority[h].until = host.auth[h].until
            /\ host.binding[h] \in {None, BindingOf(h)}


Frames == {toHost[i] : i \in DOMAIN toHost}

HostTakes(f) == toHost # <<>> /\ f = Head(toHost) /\ toHost' = Tail(toHost)

\* The frame concerns an authority or a prompt that expired on its way.
Late(f) ==
    \/ f.request.class # "wallet" /\ (host.auth[f.request.handle] = None
                                     \/ ExpiredAt(host, f.request.handle))
    \/ f.request.class = "decide" /\ \E p \in host.prompts :
            p.id = f.request.id /\ p.expires <= clock
    \/ f.body.kind = "prompt" /\ f.body.prompt.expires <= clock


\* The prompt that answers a request for a method with mandatory approval is
\* accepted by the host (docs/PROVIDER_API.md: the host correlates each request
\* with only its allowed response class, and mandatory-approval methods cannot
\* complete on their initial request).
MandatoryApprovalsPrompt ==
    [][\A f \in Frames :
          HostTakes(f) /\ host.channel = "ready" /\ f.frame = "response" =>
              (f.body.kind = "prompt" /\ ~Late(f) => host'.channel = "ready")
      ]_<<host, toHost>>
\* With nothing on its way, the host expects of each page's next event the
\* sequence the service will give it: the host resets its cursors exactly when
\* the service resets its sequences (invalidate_permission_scope: "The
\* checked-in service restarts its global event sequence domain on every
\* permission grant or revocation. Mirror that exact reset scope.").
CursorsMirrored ==
    Quiet => \A h \in Handles :
        /\ host.auth[h] # None /\ host.auth[h].phase = "active" /\ ~ExpiredAt(host, h)
        /\ host.binding[h] # None
        => Cursor(host, h, host.binding[h]) = sequences[<<h, host.auth[h].revision>>]
=============================================================================
