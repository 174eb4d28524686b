------------------------------ MODULE JwksCache ------------------------------
(***************************************************************************)
(* The signing keys of the identity provider, cached by the validator of   *)
(* bearer tokens.  The endpoints run in threads that share one provider    *)
(* object without a lock: get tests the cache, fetches, stores, sets the   *)
(* expiry and returns what the cache then holds, and refresh, which is     *)
(* tried once for an unknown key id, clears it first.                      *)
(*                                                                         *)
(* The identity provider rotates its key; document n holds key n.  Time    *)
(* passes only while threads wait for the network: a request to the        *)
(* provider or its answer, which takes at most MaxDelay.                   *)
(***************************************************************************)
EXTENDS Naturals

CONSTANTS
    Threads,
    Ttl,             \* OIDC_JWKS_CACHE_TTL_SECONDS, in ticks
    MaxDelay,        \* bound: ticks from the provider's answer to its receipt
    MaxDocument      \* bound: documents the provider publishes

ASSUME TimeAssumption == Ttl \in Nat \ {0} /\ MaxDelay \in Nat
ASSUME DocumentAssumption == MaxDocument \in Nat \ {0}

VARIABLES
    published,       \* the document the provider answers with
    withdrawn,       \* time since each key was withdrawn
    cached,          \* _cached, None when there is none
    expiry,          \* time until _expires_at
    pc,              \* what each thread does next, or the answer it gave
    kid,             \* the key id of its token
    refreshed,       \* whether it has called refresh
    document,        \* what the provider has answered it
    delay            \* time since that answer

thread == <<pc, kid, refreshed, document, delay>>
vars == <<published, withdrawn, cached, expiry, thread>>

-----------------------------------------------------------------------------
None == 0
Documents == 1 .. MaxDocument

(* What is told apart of the time since a withdrawal *)
Stale == Ttl + MaxDelay

Answers == {"accepted", "forbidden", "error"}
Idle(t) == pc[t] \in {"idle"} \cup Answers

Goto(t, label) == pc' = [pc EXCEPT ![t] = label]

Init ==
    /\ published = 1
    /\ withdrawn = [k \in Documents |-> 0]
    /\ cached = None
    /\ expiry = 0
    /\ pc = [t \in Threads |-> "idle"]
    /\ kid = [t \in Threads |-> None]
    /\ refreshed = [t \in Threads |-> FALSE]
    /\ document = [t \in Threads |-> None]
    /\ delay = [t \in Threads |-> 0]

Rotate ==
    /\ published < MaxDocument
    /\ published' = published + 1
    /\ UNCHANGED <<withdrawn, cached, expiry, thread>>

(* A token signed by a key that is or was published; None stands for a key  *)
(* id that never will be.                                                   *)
Begin(t, k) ==
    /\ Idle(t)
    /\ k \in {None} \cup 1 .. published
    /\ kid' = [kid EXCEPT ![t] = k]
    /\ refreshed' = [refreshed EXCEPT ![t] = FALSE]
    /\ Goto(t, "test")
    /\ UNCHANGED <<published, withdrawn, cached, expiry, document, delay>>

(* Mistake: a document is kept as long as its keys are known *)
TestCachedOnly(t) ==
    /\ pc[t] = "test"
    /\ Goto(t, IF cached = None THEN "fetch" ELSE "return")
    /\ UNCHANGED <<published, withdrawn, cached, expiry, kid, refreshed,
                   document, delay>>

Test(t) ==
    /\ pc[t] = "test"
    /\ Goto(t, IF cached = None \/ expiry = 0 THEN "fetch" ELSE "return")
    /\ UNCHANGED <<published, withdrawn, cached, expiry, kid, refreshed,
                   document, delay>>

(* The provider answers with its document of the moment *)
Fetch(t) ==
    /\ pc[t] = "fetch"
    /\ document' = [document EXCEPT ![t] = published]
    /\ delay' = [delay EXCEPT ![t] = 0]
    /\ Goto(t, "store")
    /\ UNCHANGED <<published, withdrawn, cached, expiry, kid, refreshed>>

(* No answer within the timeout raises URLError, which nothing catches; one *)
(* that is no JSON raises ValueError                                        *)
FetchFails(t) ==
    /\ pc[t] = "fetch"
    /\ Goto(t, "error") \/ Goto(t, "forbidden")
    /\ UNCHANGED <<published, withdrawn, cached, expiry, kid, refreshed,
                   document, delay>>

Store(t) ==
    /\ pc[t] = "store"
    /\ cached' = document[t]
    /\ document' = [document EXCEPT ![t] = None]
    /\ delay' = [delay EXCEPT ![t] = 0]
    /\ Goto(t, "expiry")
    /\ UNCHANGED <<published, withdrawn, expiry, kid, refreshed>>

SetExpiry(t) ==
    /\ pc[t] = "expiry"
    /\ expiry' = Ttl
    /\ Goto(t, "return")
    /\ UNCHANGED <<published, withdrawn, cached, kid, refreshed, document, delay>>

(* get returns what the cache holds by now and _key_for looks for the key.  *)
(* If another thread has just cleared it, None has no keys: an error.       *)
Return(t) ==
    /\ pc[t] = "return"
    /\ \/ cached = None /\ Goto(t, "error")
       \/ cached # None /\ cached = kid[t] /\ Goto(t, "accepted")
       \/ /\ cached # None /\ cached # kid[t]
          /\ Goto(t, IF refreshed[t] THEN "forbidden" ELSE "refresh")
    /\ UNCHANGED <<published, withdrawn, cached, expiry, kid, refreshed,
                   document, delay>>

(* Mistake: refresh is tried as often as the key is not found *)
RefreshAgain(t) ==
    /\ pc[t] = "refresh"
    /\ cached' = None
    /\ Goto(t, "test")
    /\ UNCHANGED <<published, withdrawn, expiry, kid, refreshed, document, delay>>

Refresh(t) ==
    /\ pc[t] = "refresh"
    /\ cached' = None
    /\ refreshed' = [refreshed EXCEPT ![t] = TRUE]
    /\ Goto(t, "test")
    /\ UNCHANGED <<published, withdrawn, expiry, kid, document, delay>>

Tick ==
    /\ \A t \in Threads : Idle(t) \/ pc[t] = "fetch"
                          \/ (pc[t] = "store" /\ delay[t] < MaxDelay)
    /\ expiry' = IF expiry = 0 THEN 0 ELSE expiry - 1
    /\ withdrawn' = [k \in Documents |-> IF k < published /\ withdrawn[k] < Stale
                                         THEN withdrawn[k] + 1 ELSE withdrawn[k]]
    /\ delay' = [t \in Threads |-> IF pc[t] = "store" THEN delay[t] + 1
                                   ELSE delay[t]]
    /\ UNCHANGED <<published, cached, pc, kid, refreshed, document>>

Validate(t) ==
    \/ Test(t) \/ Fetch(t) \/ FetchFails(t) \/ Store(t)
    \/ SetExpiry(t) \/ Return(t) \/ Refresh(t)

Next ==
    \/ \E t \in Threads : Validate(t) \/ \E k \in {None} \cup Documents : Begin(t, k)
    \/ Rotate
    \/ Tick

Spec == Init /\ [][Next]_vars

(* Threads are scheduled, and urlopen has a timeout *)
FairSpec == Spec /\ \A t \in Threads : WF_vars(Validate(t))

-----------------------------------------------------------------------------
(* Properties *)

TypeOK ==
    /\ published \in Documents
    /\ withdrawn \in [Documents -> 0 .. Stale]
    /\ cached \in {None} \cup Documents
    /\ expiry \in 0 .. Ttl
    /\ pc \in [Threads -> {"idle", "test", "fetch", "store", "expiry", "return",
                           "refresh"} \cup Answers]
    /\ kid \in [Threads -> {None} \cup Documents]
    /\ refreshed \in [Threads -> BOOLEAN]
    /\ document \in [Threads -> {None} \cup Documents]
    /\ delay \in [Threads -> 0 .. MaxDelay]

(* A withdrawn key is accepted for the lifetime of the cache and the delay  *)
(* of one answer, no longer, although a slow thread may put an older        *)
(* document in the place of a newer one and threads set each other's expiry.*)
WithdrawnKeysDie ==
    \A t \in Threads : pc[t] = "return" /\ cached = kid[t] /\ cached # None
        => withdrawn[cached] < Stale

(* When the provider has not rotated its key for that long, no answer of an *)
(* older document is left anywhere: a token signed by its key is never      *)
(* refused for its key.                                                     *)
NotRotatedLately == published = 1 \/ withdrawn[published - 1] = Stale

RotationIsFollowed ==
    NotRotatedLately =>
        \A t \in Threads : pc[t] = "return" /\ kid[t] = published
            => cached \in {None, published}

(* Every validation ends: an unknown key id costs one refresh *)
ValidationEnds == \A t \in Threads : ~Idle(t) ~> Idle(t)
=============================================================================
