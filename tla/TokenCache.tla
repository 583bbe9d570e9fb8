---------------------------- MODULE TokenCache ----------------------------
(***************************************************************************)
(* The token cache of each account and the identity pinned beside it       *)
(* (adapters/onedrive/auth.py), used by the poller and by discover-paths   *)
(* through acquire_access_token and rewritten by auth-setup.               *)
(*                                                                         *)
(* Both hold the blocking cache_file_lock of the account throughout.       *)
(* acquire_access_token is then one step, or the crash in the middle of    *)
(* it; auth-setup holds the lock while it waits for the user.  Neither     *)
(* file is replaced atomically, and a file created anew has loose          *)
(* permissions until its chmod: a crash may leave a torn or a loose file.  *)
(***************************************************************************)
EXTENDS Naturals, Sequences, FiniteSets

CONSTANTS
    N,              \* enabled accounts, in the order of the configuration
    Identities,     \* Microsoft accounts that may sign in
    MaxSetups,      \* bound: auth-setup commands
    MaxTears        \* bound: crashes inside these operations

VARIABLES
    cache,      \* the token cache file: the identities in it, in order
    pin,        \* the identity file
    loose,      \* files without owner-only permissions
    asking,     \* accounts whose cache lock auth-setup holds
    healed,     \* accounts set up, and no crash since (no program variable)
    setups, tears

files == <<cache, pin, loose>>
tokenVars == <<files, asking, healed, setups, tears>>

Accounts == 1..N
Orders == {<<>>} \union {<<i>> : i \in Identities}
          \union {<<i, j>> : i \in Identities, j \in Identities}
Members(s) == {s[n] : n \in 1..Len(s)}

TokenTypeOK ==
    /\ cache \in [Accounts -> [kind : {"missing", "torn", "ok"}, ids : Orders]]
    /\ pin \in [Accounts -> [kind : {"missing", "torn"}, id : {""}]
                            \union [kind : {"ok"}, id : Identities]]
    /\ loose \in [Accounts -> SUBSET {"cache", "pin"}]
    /\ asking \subseteq Accounts /\ healed \subseteq Accounts
    /\ setups \in 0..MaxSetups /\ tears \in 0..MaxTears

Missing == [kind |-> "missing", ids |-> <<>>]
Torn == [kind |-> "torn", ids |-> <<>>]
NoPin == [kind |-> "missing", id |-> ""]
TornPin == [kind |-> "torn", id |-> ""]

TokenInit ==
    /\ cache = [a \in Accounts |-> Missing] /\ pin = [a \in Accounts |-> NoPin]
    /\ loose = [a \in Accounts |-> {}]
    /\ asking = {} /\ healed = {}
    /\ setups = 0 /\ tears = 0

-----------------------------------------------------------------------------
(* What an operation finds *)

\* _validate_secure_file
OwnerOnly(a, file) == file \notin loose[a]

\* _build_app gets past the permission check and the parser.
Opens(a) == OwnerOnly(a, "cache") /\ cache[a].kind # "torn"

\* _load_expected_identity: the identity file is whole, or there is none.
IdentityLoads(a) == OwnerOnly(a, "pin") /\ pin[a].kind # "torn"

\* _select_account finds an account: the pinned one, or the only one.
Selects(a) ==
    /\ cache[a].ids # <<>>
    /\ IdentityLoads(a)
    /\ IF pin[a].kind = "ok" THEN pin[a].id \in Members(cache[a].ids)
                              ELSE Len(cache[a].ids) = 1

\* An unreadable cache is moved aside when it is opened.
Quarantine(a) ==
    cache' = IF cache[a].kind = "torn" /\ OwnerOnly(a, "cache")
             THEN [cache EXCEPT ![a] = Missing] ELSE cache

SaveCache(a, ids) == cache' = [cache EXCEPT ![a] = [kind |-> "ok", ids |-> ids]]

\* Mutant: an identity that is pinned stays pinned.
PersistIfNone(a, ids) ==
    pin' = IF pin[a].kind = "ok" THEN pin
           ELSE [pin EXCEPT ![a] = [kind |-> "ok", id |-> ids[1]]]

\* _persist_account_identity pins the first account of the cache.
PersistIdentity(a, ids) == pin' = [pin EXCEPT ![a] = [kind |-> "ok", id |-> ids[1]]]

-----------------------------------------------------------------------------
(* acquire_access_token *)

Acquire(a) ==
    /\ a \notin asking
    /\ Opens(a) /\ Selects(a)
    /\ PersistIdentity(a, cache[a].ids)
    /\ loose' = [loose EXCEPT ![a] = @ \ {"pin"}]
    /\ UNCHANGED <<cache, asking, healed, setups, tears>>

\* AuthError: nothing usable is cached, or the service refuses the refresh.
AcquireFails(a) ==
    /\ a \notin asking
    /\ Quarantine(a)
    /\ UNCHANGED <<pin, loose, asking, healed, setups, tears>>

\* The process dies while it writes the cache or the identity.
AcquireDies(a) ==
    /\ a \notin asking
    /\ Opens(a) /\ Selects(a)
    /\ tears < MaxTears
    /\ tears' = tears + 1
    /\ \/ cache' = [cache EXCEPT ![a] = Torn] /\ UNCHANGED <<pin, loose>>
       \/ /\ pin' = [pin EXCEPT ![a] = TornPin]
          /\ loose' \in {loose, IF pin[a].kind = "missing"
                                THEN [loose EXCEPT ![a] = @ \union {"pin"}] ELSE loose}
          /\ UNCHANGED cache
    /\ healed' = healed \ {a}
    /\ UNCHANGED <<asking, setups>>

-----------------------------------------------------------------------------
(* auth_setup *)

\* The cache is opened and the user is asked to sign in.
SetupBegins(a) ==
    /\ a \notin asking
    /\ setups < MaxSetups
    /\ setups' = setups + 1
    /\ IF Opens(a) THEN asking' = asking \union {a} /\ UNCHANGED cache
                   ELSE Quarantine(a) /\ UNCHANGED asking
    /\ UNCHANGED <<pin, loose, healed, tears>>

\* The identities in the cache once i has signed in (external: MSAL).
SignedIn(a, i) ==
    IF i \in Members(cache[a].ids) THEN cache[a].ids ELSE Append(cache[a].ids, i)

\* The user has signed in: cache and identity are written.
SetupDone(a, i) ==
    /\ a \in asking
    /\ Len(SignedIn(a, i)) <= 2
    /\ SaveCache(a, SignedIn(a, i))
    /\ PersistIdentity(a, SignedIn(a, i))
    /\ loose' = [loose EXCEPT ![a] = {}]
    /\ asking' = asking \ {a}
    /\ healed' = healed \union {a}
    /\ UNCHANGED <<setups, tears>>

\* The user declines, or the device code expires.
SetupGivesUp(a) ==
    /\ a \in asking
    /\ asking' = asking \ {a}
    /\ UNCHANGED <<files, healed, setups, tears>>

\* The process dies while it writes: a new cache may be torn or loose, an old
\* one torn, and the identity likewise; or the cache is done, its chmod too,
\* and the identity still the old one.
SetupDies(a, i) ==
    /\ a \in asking
    /\ tears < MaxTears
    /\ tears' = tears + 1
    /\ \/ /\ SaveCache(a, SignedIn(a, i)) \/ cache' = [cache EXCEPT ![a] = Torn]
          /\ loose' = IF cache[a].kind = "missing"
                      THEN [loose EXCEPT ![a] = @ \union {"cache"}] ELSE loose
          /\ UNCHANGED pin
       \/ SaveCache(a, SignedIn(a, i)) /\ UNCHANGED <<pin, loose>>
       \/ /\ SaveCache(a, SignedIn(a, i))
          /\ pin' = [pin EXCEPT ![a] = TornPin]
          /\ loose' = IF pin[a].kind = "missing"
                      THEN [loose EXCEPT ![a] = @ \union {"pin"}] ELSE loose
    /\ Len(SignedIn(a, i)) <= 2
    /\ asking' = asking \ {a}
    /\ healed' = healed \ {a}
    /\ UNCHANGED setups

\* auth-setup comes to an end.
SetupEnds(a) == SetupGivesUp(a) \/ \E i \in Identities : SetupDone(a, i)

-----------------------------------------------------------------------------

\* "Run auth-setup ...", say the messages of AuthError: once auth-setup has
\* completed for an account, and until a process dies again in the middle of
\* writing, no token request fails for what is on disk, whatever the files
\* were before, whoever had signed in and however often tokens are acquired.
SetupHeals == \A a \in healed \ asking : Opens(a) /\ Selects(a)

=============================================================================
