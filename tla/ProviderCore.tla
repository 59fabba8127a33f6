----------------------------- MODULE ProviderCore -----------------------------
(***************************************************************************)
(* ProviderCore of crates/hns-wallet-provider/src/lib.rs together with the  *)
(* permission rows it keeps in the wallet store.  A host registers an       *)
(* authority (the facts of one page) under a handle; the page's requests    *)
(* are checked against the authority, the rate window, the replay table,    *)
(* the wallet lock and the permission of the page's scope, and either       *)
(* execute or become a pending approval that the user may later approve.    *)
(* Between prompt and answer the host may replace or revoke the authority,  *)
(* another page of the same scope may change the permission, the wallet may *)
(* be locked or restarted, and time passes.                                 *)
(*                                                                         *)
(* Time is counted in ticks of a second.  Every operation takes the host's  *)
(* time, and one that fails keeps it all the same (accept_time); Snapshot   *)
(* is that step, the other operations happen at the time last accepted.     *)
(* A scope stands for origin, namespace and browser runtime session.        *)
(* Methods are classed by what request() tells apart.  Operations that are  *)
(* refused without a change of state are not actions.                       *)
(***************************************************************************)
EXTENDS Naturals, FiniteSets

CONSTANTS
    Handles,            \* host authority handles
    Scopes,             \* origin and namespace of a page
    Nonces,             \* request nonces the host draws from
    Methods,            \* the classes of methods in use
    Grants,             \* capability sets a grant may carry
    ApprovalLifetime,   \* APPROVAL_LIFETIME_SECONDS
    RateWindow,         \* RATE_WINDOW_SECONDS
    RateLimit,          \* calls of one method per window
    MaxAuthorities,     \* MAX_REGISTERED_AUTHORITIES
    MaxPending,         \* MAX_PENDING_APPROVALS
    MaxReplay,          \* MAX_REPLAY_NONCES
    None,               \* nothing registered, nothing returned
    MaxTime,            \* bound on the clock
    MaxRevision,        \* bound on authority revisions
    MaxGeneration,      \* bound on permission generations
    MaxSession          \* bound on wallet sessions

\* "update" is hns_updateName, "module" enables or disables a module; the other classes stand for several methods.
MethodClasses ==
    {"status", "permissions", "revoke", "lock", "read", "grant", "module",
     "value", "update"}
Capabilities == {"read", "value"}
Times == 0..MaxTime

ASSUME MethodAssumption == Methods \subseteq MethodClasses
ASSUME GrantAssumption == Grants \subseteq (SUBSET Capabilities) \ {{}}
ASSUME LimitAssumption ==
    /\ {ApprovalLifetime, RateWindow, RateLimit, MaxAuthorities,
        MaxPending, MaxReplay, MaxRevision} \subseteq Nat \ {0}
    /\ {MaxTime, MaxGeneration, MaxSession} \subseteq Nat
ASSUME NoneAssumption ==
    None \notin [scope : Scopes, until : Nat, revision : Nat \ {0}]

VARIABLES
    clock,        \* last_now_unix_ms
    authority,    \* registered authorities by handle
    session,      \* wallet_session
    locked,       \* wallet_locked
    pending,      \* pending approvals
    replay,       \* expiry of each (handle, nonce) in the replay table, 0: none
    rate,         \* rate window of each (handle, method)
    permission,   \* the store's permission row of each scope
    reply,        \* what the last call returned: a call that may run, or None
    standing      \* history: ids of prompts whose circumstances are unchanged

vars == <<clock, authority, session, locked, pending, replay, rate,
          permission, reply, standing>>

Authorities == [scope : Scopes, until : Nat, revision : Nat \ {0}]
Ids == [handle : Handles, revision : Nat, session : Nat, nonce : Nonces,
        method : Methods, scope : Scopes]
Approvals == [id : Ids, generation : Nat, expires : Nat]
Rows == [generation : Nat, revoked : BOOLEAN, capabilities : SUBSET Capabilities,
         created : Nat, expires : Nat]

(***************************************************************************)
(* The method table.                                                        *)
(***************************************************************************)

\* Capabilities the method requires (ProviderMethod::permission).
Required(m) == IF m = "update" THEN {"value"} ELSE {m} \cap Capabilities

\* Methods that prompt the user (ProviderMethod::approval).
NeedsApproval(m) == m \in {"grant", "module", "value", "update"}

\* Methods served while the wallet is locked.
AllowedWhileLocked(m) == m = "status"

(***************************************************************************)
(* Checks shared by the operations.                                         *)
(***************************************************************************)

\* authority(): the handle is registered at this revision and has not expired.
AuthorityOK(h, r) ==
    /\ authority[h] # None
    /\ authority[h].revision = r
    /\ authority[h].until > clock

\* validate_permission_identity(): the row as the provider sees it now.  A row
\* stamped later than now is refused; a revoked or expired one reads as absent.
InForce(s) ==
    /\ permission[s].generation > 0
    /\ ~permission[s].revoked
    /\ permission[s].created <= clock
    /\ permission[s].expires = 0 \/ permission[s].expires > clock

Permitted(s, m) ==
    Required(m) # {} => InForce(s) /\ Required(m) \subseteq permission[s].capabilities

\* enforce_rate(): the window the call is counted in.
Window(h, m) ==
    IF rate[<<h, m>>].count = 0 \/ clock - rate[<<h, m>>].start >= RateWindow
    THEN [start |-> clock, count |-> 0]
    ELSE rate[<<h, m>>]

Counted(h, m) ==
    [rate EXCEPT ![<<h, m>>] = [Window(h, m) EXCEPT !.count = @ + 1]]

\* consume_nonce() first forgets the expired nonces.
LiveReplay == [k \in Handles \X Nonces |->
                  IF replay[k] > clock THEN replay[k] ELSE 0]

NonceFree(h, n) ==
    /\ LiveReplay[<<h, n>>] = 0
    /\ Cardinality({k \in Handles \X Nonces : LiveReplay[k] # 0}) < MaxReplay

Expiry == clock + ApprovalLifetime

ConsumedReplay(h, n) == [LiveReplay EXCEPT ![<<h, n>>] = Expiry]

LivePending == {p \in pending : p.expires > clock}

ApprovalId(h, n, m) ==
    [handle |-> h, revision |-> authority[h].revision, session |-> session,
     nonce |-> n, method |-> m, scope |-> authority[h].scope]

-----------------------------------------------------------------------------
NoReply == [call |-> "none", id |-> None]
NoWindow == [start |-> 0, count |-> 0]

Init ==
    /\ clock = 0
    /\ authority = [h \in Handles |-> None]
    /\ session = 0
    /\ locked = TRUE
    /\ pending = {}
    /\ replay = [k \in Handles \X Nonces |-> 0]
    /\ rate = [k \in Handles \X Methods |-> NoWindow]
    /\ permission = [s \in Scopes |->
           [generation |-> 0, revoked |-> FALSE, capabilities |-> {},
            created |-> 0, expires |-> 0]]
    /\ reply = NoReply
    /\ standing = {}

\* A slip: the approvals of a replaced or revoked handle survive it.
DropHandlesKeepingPrompts(H) ==
    /\ pending' = pending
    /\ replay' = [k \in Handles \X Nonces |-> IF k[1] \in H THEN 0 ELSE replay[k]]
    /\ rate' = [k \in Handles \X Methods |-> IF k[1] \in H THEN NoWindow ELSE rate[k]]
    /\ standing' = {i \in standing : i.handle \notin H}

\* What replace, revoke and expiry do to everything kept for the handles H.
DropHandles(H) ==
    /\ pending' = {p \in pending : p.id.handle \notin H}
    /\ replay' = [k \in Handles \X Nonces |-> IF k[1] \in H THEN 0 ELSE replay[k]]
    /\ rate' = [k \in Handles \X Methods |-> IF k[1] \in H THEN NoWindow ELSE rate[k]]
    /\ standing' = {i \in standing : i.handle \notin H}

(***************************************************************************)
(* Authorities.                                                             *)
(***************************************************************************)

\* The authorities that registration first removes, and those it keeps.
Expired == {g \in Handles : authority[g] # None /\ authority[g].until <= clock}
Kept == {g \in Handles \ Expired : authority[g] # None}

\* A slip: the registry is not held to its capacity.
CanRegisterUnbounded(h, u) ==
    /\ u > clock
    /\ h \notin Kept

CanRegister(h, u) ==
    /\ u > clock
    /\ h \notin Kept
    /\ Cardinality(Kept) < MaxAuthorities

\* A slip: the first revision is 0, which no request may name.
RegisterFromZero(h, s, u) ==
    /\ CanRegister(h, u)
    /\ authority' = [authority EXCEPT ![h] = [scope |-> s, until |-> u, revision |-> 0]]
    /\ DropHandles(Expired)
    /\ reply' = NoReply
    /\ UNCHANGED <<clock, session, locked, permission>>

RegisterAuthority(h, s, u) ==
    /\ CanRegister(h, u)
    /\ authority' = [g \in Handles |->
           IF g = h THEN [scope |-> s, until |-> u, revision |-> 1]
           ELSE IF g \in Expired THEN None ELSE authority[g]]
    /\ DropHandles(Expired)
    /\ reply' = NoReply
    /\ UNCHANGED <<clock, session, locked, permission>>

\* What register_authority() leaves when it fails after pruning.
PruneAuthorities ==
    /\ authority' = [g \in Handles |-> IF g \in Expired THEN None ELSE authority[g]]
    /\ DropHandles(Expired)
    /\ reply' = NoReply
    /\ UNCHANGED <<clock, session, locked, permission>>

RegisterRefused(h, u) ==
    /\ u > clock
    /\ ~CanRegister(h, u)
    /\ Expired # {}
    /\ PruneAuthorities

ReplaceAuthority(h, r, u) ==
    /\ u > clock
    /\ AuthorityOK(h, r)
    /\ r < MaxRevision
    /\ authority' = [authority EXCEPT ![h].until = u, ![h].revision = r + 1]
    /\ DropHandles({h})
    /\ reply' = NoReply
    /\ UNCHANGED <<clock, session, locked, permission>>

\* revoke_authority() takes no time and does not look at the expiry.
RevokeAuthority(h, r) ==
    /\ authority[h] # None
    /\ authority[h].revision = r
    /\ authority' = [authority EXCEPT ![h] = None]
    /\ DropHandles({h})
    /\ reply' = NoReply
    /\ UNCHANGED <<clock, session, locked, permission>>

\* A slip: only a new session drops what was pending.
SetWalletStateSameSession(w, l) ==
    /\ w # session \/ l # locked
    /\ session' = w
    /\ locked' = l
    /\ IF w # session
       THEN /\ pending' = {}
            /\ replay' = [k \in Handles \X Nonces |-> 0]
            /\ rate' = [k \in Handles \X Methods |-> NoWindow]
       ELSE UNCHANGED <<pending, replay, rate>>
    /\ standing' = {}
    /\ reply' = NoReply
    /\ UNCHANGED <<clock, authority, permission>>

\* What a change of session or lock forgets.
DropAll ==
    /\ pending' = {}
    /\ replay' = [k \in Handles \X Nonces |-> 0]
    /\ rate' = [k \in Handles \X Methods |-> NoWindow]
    /\ standing' = {}

SetWalletState(w, l) ==
    /\ w # session \/ l # locked
    /\ session' = w
    /\ locked' = l
    /\ DropAll
    /\ reply' = NoReply
    /\ UNCHANGED <<clock, authority, permission>>

(***************************************************************************)
(* Requests.  A request for a stale or expired authority, of a method       *)
(* foreign to the namespace, or past its rate changes nothing.              *)
(***************************************************************************)

Admissible(h, r, m) ==
    /\ AuthorityOK(h, r)
    /\ Window(h, m).count < RateLimit

\* The nonce was used within its lifetime, or the replay table is full.
RequestReplayed(h, r, n, m) ==
    /\ Admissible(h, r, m)
    /\ ~NonceFree(h, n)
    /\ rate' = Counted(h, m)
    /\ replay' = LiveReplay
    /\ reply' = NoReply
    /\ UNCHANGED <<clock, authority, session, locked, permission, pending, standing>>

\* The request is counted and its nonce consumed, whatever comes of it.
ConsumeRequest(h, n, m) ==
    /\ rate' = Counted(h, m)
    /\ replay' = ConsumedReplay(h, n)

FreshRequest(h, r, n, m) ==
    /\ Admissible(h, r, m)
    /\ NonceFree(h, n)
    /\ ConsumeRequest(h, n, m)
    /\ UNCHANGED <<clock, authority, session, locked, permission>>

\* Everything request() asks after the nonce is consumed.
Allowed(h, m) ==
    /\ locked => AllowedWhileLocked(m)
    /\ Permitted(authority[h].scope, m)

RequestRefused(h, r, n, m) ==
    /\ FreshRequest(h, r, n, m)
    /\ ~Allowed(h, m)
    /\ reply' = NoReply
    /\ UNCHANGED <<pending, standing>>

RequestExecutes(h, r, n, m) ==
    /\ FreshRequest(h, r, n, m)
    /\ Allowed(h, m)
    /\ ~NeedsApproval(m)
    /\ reply' = [call |-> "execute", id |-> None]
    /\ UNCHANGED <<pending, standing>>

RequestCrowdedOut(h, r, n, m) ==
    /\ FreshRequest(h, r, n, m)
    /\ Allowed(h, m)
    /\ NeedsApproval(m)
    /\ Cardinality(LivePending) >= MaxPending
    /\ pending' = LivePending
    /\ reply' = NoReply
    /\ UNCHANGED standing

RequestPrompts(h, r, n, m) ==
    LET id == ApprovalId(h, n, m)
        approval == [id |-> id,
                     generation |-> permission[authority[h].scope].generation,
                     expires |-> Expiry]
    IN  /\ FreshRequest(h, r, n, m)
        /\ Allowed(h, m)
        /\ NeedsApproval(m)
        /\ Cardinality(LivePending) < MaxPending
        /\ pending' = {p \in LivePending : p.id # id} \cup {approval}
        /\ standing' = standing \cup {id}
        /\ reply' = NoReply

(***************************************************************************)
(* Answers.                                                                 *)
(***************************************************************************)

\* The checks approve() and reject() share.
Answerable(p, h, r) ==
    /\ AuthorityOK(h, r)
    /\ p.expires > clock
    /\ p.id.scope = authority[h].scope
    /\ p.id.handle = h
    /\ p.id.revision = r
    /\ p.id.session = session
    /\ p.generation = permission[authority[h].scope].generation

Approve(p, h, r) ==
    /\ Answerable(p, h, r)
    /\ Permitted(p.id.scope, p.id.method)
    /\ pending' = pending \ {p}
    /\ reply' = [call |-> "approve", id |-> p.id]
    /\ standing' = standing \ {p.id}
    /\ UNCHANGED <<clock, authority, session, locked, replay, rate, permission>>

Reject(p, h, r) ==
    /\ Answerable(p, h, r)
    /\ pending' = pending \ {p}
    /\ standing' = standing \ {p.id}
    /\ reply' = NoReply
    /\ UNCHANGED <<clock, authority, session, locked, replay, rate, permission>>

(***************************************************************************)
(* Permissions.                                                             *)
(***************************************************************************)

\* A write of the scope's row withdraws the prompts of every page in the scope.
DropScope(s) ==
    /\ pending' = {p \in pending : p.id.scope # s}
    /\ standing' = {i \in standing : i.scope # s}

\* grant_scoped_permissions_inner(): the next generation carries c until x, 0
\* for no expiry.
WriteGrant(s, c, x) ==
    /\ permission' = [permission EXCEPT ![s] =
           [generation |-> @.generation + 1, revoked |-> FALSE, capabilities |-> c,
            created |-> clock, expires |-> x]]
    /\ DropScope(s)

\* e is the generation the prompt showed, or None.
GrantPermissions(h, r, e, c, x) ==
    LET s == authority[h].scope
    IN  /\ AuthorityOK(h, r)
        /\ x = 0 \/ x > clock
        /\ e \in {None, permission[s].generation}
        /\ permission[s].generation < MaxGeneration
        /\ WriteGrant(s, c, x)
        /\ reply' = NoReply
        /\ UNCHANGED <<clock, authority, session, locked, replay, rate>>

CanRevoke(s) == permission[s].generation > 0 /\ ~permission[s].revoked

\* A slip: revoking forgets the row, and with it the generation.
WriteForgotten(s) ==
    /\ permission' = [permission EXCEPT ![s] =
           [generation |-> 0, revoked |-> FALSE, capabilities |-> {},
            created |-> 0, expires |-> 0]]
    /\ DropScope(s)

\* The store keeps a tombstone with the next generation.
WriteTombstone(s) ==
    /\ permission' = [permission EXCEPT ![s] =
           [generation |-> @.generation + 1, revoked |-> TRUE,
            capabilities |-> {}, created |-> clock, expires |-> 0]]
    /\ DropScope(s)

RevokePermissions(h, r) ==
    LET s == authority[h].scope
    IN  /\ AuthorityOK(h, r)
        /\ CanRevoke(s)
        /\ permission[s].generation < MaxGeneration
        /\ WriteTombstone(s)
        /\ reply' = NoReply
        /\ UNCHANGED <<clock, authority, session, locked, replay, rate>>

\* permission_snapshot(), or any operation that fails after accept_time.
Snapshot(t) ==
    /\ t > clock
    /\ clock' = t
    /\ reply' = NoReply
    /\ UNCHANGED <<authority, session, locked, pending, replay, rate, permission, standing>>

\* A new process over the same store, at whatever time its host tells.
Restart(t) ==
    /\ session < MaxSession
    /\ clock' = t
    /\ authority' = [h \in Handles |-> None]
    /\ session' = session + 1
    /\ locked' = TRUE
    /\ DropAll
    /\ reply' = NoReply
    /\ UNCHANGED permission

-----------------------------------------------------------------------------
Next ==
    \/ \E h \in Handles, s \in Scopes, u \in Times : RegisterAuthority(h, s, u)
    \/ \E h \in Handles, u \in Times : RegisterRefused(h, u)
    \/ \E h \in Handles, r \in 1..MaxRevision :
           \/ \E u \in Times : ReplaceAuthority(h, r, u)
           \/ RevokeAuthority(h, r)
           \/ \E n \in Nonces, m \in Methods :
                  \/ RequestReplayed(h, r, n, m)
                  \/ RequestRefused(h, r, n, m)
                  \/ RequestExecutes(h, r, n, m)
                  \/ RequestCrowdedOut(h, r, n, m)
                  \/ RequestPrompts(h, r, n, m)
           \/ \E p \in pending : Approve(p, h, r) \/ Reject(p, h, r)
           \/ \E e \in {None} \cup 0..MaxGeneration, c \in Grants, x \in Times :
                  GrantPermissions(h, r, e, c, x)
           \/ RevokePermissions(h, r)
    \/ \E w \in {session, session + 1} \cap 0..MaxSession, l \in BOOLEAN :
           SetWalletState(w, l)
    \/ \E t \in Times : Snapshot(t) \/ Restart(t)

Spec == Init /\ [][Next]_vars

-----------------------------------------------------------------------------
Replies == [call : {"none", "execute", "approve"}, id : Ids \cup {None}]

\* Every variable has its type.
TypeOK ==
    /\ clock \in Nat
    /\ authority \in [Handles -> Authorities \cup {None}]
    /\ session \in Nat
    /\ locked \in BOOLEAN
    /\ pending \subseteq Approvals
    /\ replay \in [Handles \X Nonces -> Nat]
    /\ rate \in [Handles \X Methods -> [start : Nat, count : Nat]]
    /\ permission \in [Scopes -> Rows]
    /\ reply \in Replies
    /\ standing \subseteq Ids

\* Authorities, pending approvals and replay nonces stay within their caps
\* through every order of registration, expiry, replacement and pruning: each
\* table is pruned at another time than the others, and a count taken over
\* expired entries or not taken at all would let one grow past its cap.
TablesBounded ==
    /\ Cardinality({h \in Handles : authority[h] # None}) <= MaxAuthorities
    /\ Cardinality(pending) <= MaxPending
    /\ Cardinality({k \in Handles \X Nonces : replay[k] # 0}) <= MaxReplay

\* A prompt the user can still answer keeps its nonce out of use until it
\* expires: no second request of the page can take over its approval id
\* (request() inserts by id), whatever was replaced, locked or pruned since.
LivePromptKeepsNonce ==
    \A p \in pending : p.expires > clock =>
        replay[<<p.id.handle, p.id.nonce>>] >= p.expires

\* approve() returns a call only for a prompt that was shown, is unanswered,
\* and since which nothing it was asked under has changed: not the page's
\* authority, not the permission of its scope (not even to the same value and
\* back), not the wallet session or lock.
ApprovedAsAsked ==
    [][reply'.call = "approve" => reply'.id \in standing]_<<reply, standing>>

\* A scope's permission row never changes without raising its generation, over
\* revocations, expiries and restarts: a generation a host or a prompt holds
\* names one decision for good.
GenerationsOnlyRise ==
    [][\A s \in Scopes : permission'[s] # permission[s] =>
           permission'[s].generation > permission[s].generation]_permission
=============================================================================
