------------------------------ MODULE SigningKeys ------------------------------
(***************************************************************************)
(* Which signing key of the identity provider the BL API accepts           *)
(* (JwksKeySource and TokenVerifier of apps/api/alexsoft_api/auth.py):     *)
(* keys are cached for a time to live, and fetched again before that when  *)
(* a token names an unknown one, but not too often.  One lock serialises   *)
(* the callers, across the fetch; while it is out the provider may rotate  *)
(* its keys and time passes.  Time is discrete and known by ages only,     *)
(* counted up to Old, where nothing tells older ones apart.                *)
(***************************************************************************)
EXTENDS Integers, FiniteSets

CONSTANTS
    Tokens,        \* the tokens presented
    Kids,          \* key ids
    KidOf,         \* the kid of a token's header, NoKid when it has none
    NoKid,
    Pending,       \* the provider has not answered yet
    Ttl, MinRefetch, FetchTime   \* ttl_s, min_refetch_s, the client's timeout

ASSUME KeysAssumption ==
    /\ Ttl \in Nat /\ MinRefetch \in Nat /\ FetchTime \in Nat
    /\ IsFiniteSet(Kids) /\ KidOf \in [Tokens -> Kids \cup {NoKid}] /\ NoKid \notin Kids
    /\ \A ks \in SUBSET Kids : ks # Pending
    /\ Tokens \cap {"ping", "nobody"} = {}

VARIABLES
    published,       \* the keys of the provider
    shown, hidden,   \* history: per key, how long ago it was (was not) published
    keys, fetchAge,  \* _keys, and the age of _fetched_at
    holder,          \* who holds the lock to fetch, for how long, and what was answered
    answer           \* per token: what became of it; history: was its key published lately, hidden lately

keyVars == <<published, shown, hidden, keys, fetchAge, holder, answer>>

Old    == Ttl + FetchTime + 1
Older(age) == IF age = Old THEN Old ELSE age + 1
Pinger == "ping"     \* the readiness probe
Free   == [who |-> "nobody", held |-> 0, got |-> Pending]
Asked(what) == [is |-> what, current |-> TRUE, new |-> TRUE]

KeysInit ==
    /\ published \in SUBSET Kids
    /\ shown = [k \in Kids |-> IF k \in published THEN 0 ELSE Old]
    /\ hidden = [k \in Kids |-> IF k \in published THEN Old ELSE 0]
    /\ keys = {} /\ fetchAge = Old /\ holder = Free
    /\ answer = [t \in Tokens |-> Asked("no")]

\* A fetch takes FetchTime at most: the client's timeout is taken as one of the
\* whole exchange, though httpx applies it to every phase and read of its own.
Tick ==
    /\ holder # Free => holder.held < FetchTime
    /\ shown' = [k \in Kids |-> IF k \in published THEN 0 ELSE Older(shown[k])]
    /\ hidden' = [k \in Kids |-> IF k \in published THEN Older(hidden[k]) ELSE 0]
    /\ fetchAge' = Older(fetchAge)
    /\ holder' = IF holder = Free THEN Free ELSE [holder EXCEPT !.held = @ + 1]
    /\ UNCHANGED <<published, keys, answer>>

\* The provider publishes other keys.
Rotate ==
    /\ \E ks \in SUBSET Kids \ {published} :
        /\ published' = ks
        /\ shown' = [k \in Kids |-> IF k \in ks THEN 0 ELSE shown[k]]
        /\ hidden' = [k \in Kids |-> IF k \in ks THEN hidden[k] ELSE 0]
    /\ UNCHANGED <<keys, fetchAge, holder, answer>>

Present(t) ==
    /\ answer[t].is \notin {"waiting", "fetching"} /\ answer' = [answer EXCEPT ![t] = Asked("waiting")]
    /\ UNCHANGED <<published, shown, hidden, keys, fetchAge, holder>>

\* The key for a token among the cached ones; without a kid only a lone key.
Judge(t, ks) ==
    LET found == IF KidOf[t] = NoKid THEN Cardinality(ks) = 1 ELSE KidOf[t] \in ks
        k     == IF KidOf[t] = NoKid THEN CHOOSE x \in Kids : found => ks = {x} ELSE KidOf[t] IN
    answer' = [answer EXCEPT ![t] =
        [is |-> IF found THEN "accepted" ELSE "unknown",
         current |-> found => shown[k] <= Ttl + FetchTime,
         new |-> KidOf[t] = NoKid \/ found \/ hidden[k] <= MinRefetch + FetchTime]]

Stale == keys = {} \/ fetchAge > Ttl

\* Mutant: an unknown key is not looked for until the keys are stale.
RefetchStale(t) == Stale

\* get_key fetches when the keys are stale, or when the key is unknown (a
\* token without a kid has none) and the last fetch is some time ago.
Refetch(t) == Stale \/ (KidOf[t] \notin keys /\ fetchAge > MinRefetch)

\* get_key under the lock, up to the fetch.
GetKey(t) ==
    /\ answer[t].is = "waiting" /\ holder = Free
    /\ IF Refetch(t)
         THEN /\ holder' = [who |-> t, held |-> 0, got |-> Pending]
              /\ answer' = [answer EXCEPT ![t] = Asked("fetching")]
         ELSE Judge(t, keys) /\ UNCHANGED holder
    /\ UNCHANGED <<published, shown, hidden, keys, fetchAge>>

\* The readiness probe fetches every time.
Ping ==
    /\ holder = Free /\ holder' = [who |-> Pinger, held |-> 0, got |-> Pending]
    /\ UNCHANGED <<published, shown, hidden, keys, fetchAge, answer>>

\* The provider answers with what it publishes at that moment.
Answer ==
    /\ holder # Free /\ holder.got = Pending /\ holder' = [holder EXCEPT !.got = published]
    /\ UNCHANGED <<published, shown, hidden, keys, fetchAge, answer>>

\* _refresh has the answer.
Fetched ==
    /\ holder # Free /\ holder.got # Pending
    /\ keys' = holder.got /\ fetchAge' = 0 /\ holder' = Free
    /\ IF holder.who = Pinger THEN UNCHANGED answer ELSE Judge(holder.who, keys')
    /\ UNCHANGED <<published, shown, hidden>>

\* The provider is out of reach: the cached keys stay, the caller is refused.
FetchFails ==
    /\ holder # Free /\ holder' = Free
    /\ answer' = IF holder.who = Pinger THEN answer ELSE [answer EXCEPT ![holder.who] = Asked("unavailable")]
    /\ UNCHANGED <<published, shown, hidden, keys, fetchAge>>

KeysNext ==
    \/ Tick \/ Rotate \/ Ping \/ Answer \/ Fetched \/ FetchFails
    \/ \E t \in Tokens : Present(t) \/ GetKey(t)

KeysSpec == KeysInit /\ [][KeysNext]_keyVars

(* A retired key is accepted for the time to live at most, counted from the  *)
(* last moment it was published (plus what a fetch takes), and a key that    *)
(* has been published for longer than min_refetch is never called unknown,   *)
(* however requests, probe, outages and rotations interleave.                *)
KeysFollowProvider == \A t \in Tokens :
    /\ answer[t].is = "accepted" => answer[t].current
    /\ answer[t].is = "unknown"  => answer[t].new

==============================================================================
