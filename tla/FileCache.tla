----------------------------- MODULE FileCache -----------------------------
(***************************************************************************)
(* The file-backed cache of the gateway (shared/services/cache): the       *)
(* service's operations on the backend, its debounced saves, the load at   *)
(* start, expiry, a crash and a restart.                                   *)
(*                                                                         *)
(* Values are numbers, an entry is a value and the time it has left (0 is  *)
(* expired, Forever has no ttl).  A save stringifies what is in memory     *)
(* after it has made the directory, and then writes the file: a crash in   *)
(* between leaves what the file system has of it.  Saves are not           *)
(* serialised: the timer starts one whether or not one is under way, and   *)
(* what overlapping writes leave in the file is one of the two or neither. *)
(***************************************************************************)
EXTENDS Integers, Sequences, FiniteSets, Functions

CONSTANTS
    Keys,
    Callers,        \* requests that use the cache
    Ttl,            \* ttl of an entry that has one
    MaxOps,         \* bound: operations
    MaxCrashes,     \* bound: crashes
    MaxSaves,       \* bound: saves that overlap
    None, Torn, Mkdir

Forever == -1
Empty == [k \in {} |-> 0]

VARIABLES
    up,        \* "loading", "up", "closed" or "down"
    data,      \* the entries in memory
    file,      \* the entries on disk, or Torn
    timer,     \* saveTimer is set
    saves,     \* saves under way: Mkdir, or the snapshot being written
    caller,    \* an increment between its get and its set
    ops, crashes,
    spoilt    \* history: since the last write that was alone when it began,
              \* one failed, overlapped another or was cut by a crash

vars == <<up, data, file, timer, saves, caller, ops, crashes, spoilt>>

Init ==
    /\ up = "loading" /\ data = Empty /\ file = Empty
    /\ timer = FALSE /\ saves = << >>
    /\ caller = [c \in Callers |-> None]
    /\ ops = 0 /\ crashes = 0 /\ spoilt = FALSE

Live(d, k) == k \in DOMAIN d /\ d[k].left # 0
Without(d, ks) == [k \in DOMAIN d \ ks |-> d[k]]
With(d, k, v, ttl) == [j \in DOMAIN d \cup {k} |-> IF j = k THEN [value |-> v, left |-> ttl] ELSE d[j]]
Expired(d) == {k \in DOMAIN d : d[k].left = 0}

\* get and set await the load; delete, clear and has do not, and find nothing
\* before it.
Anytime == up \in {"loading", "up"} /\ ops < MaxOps /\ ops' = ops + 1
Operation == up = "up" /\ Anytime

Writing == {i \in DOMAIN saves : saves[i] # Mkdir}

-----------------------------------------------------------------------------
\* loadCache; a file that is missing or does not parse gives an empty cache.
Load ==
    /\ up = "loading"
    /\ data' = IF file = Torn THEN Empty ELSE file
    /\ up' = "up"
    /\ UNCHANGED <<file, timer, saves, caller, ops, crashes, spoilt>>

\* set; a ttl of 0 or none gives an entry that does not expire.
Set(k) ==
    /\ Operation
    /\ \E ttl \in {Forever, Ttl} : data' = With(data, k, 100, ttl)
    /\ timer' = TRUE
    /\ UNCHANGED <<up, file, saves, caller, crashes, spoilt>>

\* get and has of an expired entry drop it; otherwise they change nothing.
GetExpired(k) ==
    /\ Operation /\ k \in Expired(data)
    /\ data' = Without(data, {k})
    /\ timer' = TRUE
    /\ UNCHANGED <<up, file, saves, caller, crashes, spoilt>>

Delete(k) ==
    /\ Anytime /\ k \in DOMAIN data
    /\ data' = Without(data, {k})
    /\ timer' = TRUE
    /\ UNCHANGED <<up, file, saves, caller, crashes, spoilt>>

Clear ==
    /\ Anytime
    /\ data' = Empty /\ timer' = TRUE
    /\ UNCHANGED <<up, file, saves, caller, crashes, spoilt>>

Cleanup ==
    /\ up = "up" /\ Expired(data) # {}
    /\ data' = Without(data, Expired(data)) /\ timer' = TRUE
    /\ UNCHANGED <<up, file, saves, caller, ops, crashes, spoilt>>

\* CacheService.increment: a get, which drops an expired entry ...
IncrementRead(c, k) ==
    /\ Operation /\ caller[c] = None
    /\ caller' = [caller EXCEPT ![c] = [key |-> k,
                                       read |-> IF Live(data, k) THEN data[k].value ELSE 0]]
    /\ data' = Without(data, {k} \cap Expired(data))
    /\ timer' = (timer \/ k \in Expired(data))
    /\ UNCHANGED <<up, file, saves, crashes, spoilt>>

\* ... and, after an await, a set.
IncrementWrite(c) ==
    /\ up = "up" /\ caller[c] # None
    /\ data' = With(data, caller[c].key, caller[c].read + 1, Forever)
    /\ timer' = TRUE
    /\ caller' = [caller EXCEPT ![c] = None]
    /\ UNCHANGED <<up, file, saves, ops, crashes, spoilt>>

Tick ==
    /\ up = "up" /\ \E k \in DOMAIN data : data[k].left > 0
    /\ data' = [k \in DOMAIN data |-> [data[k] EXCEPT !.left = IF @ > 0 THEN @ - 1 ELSE @]]
    /\ file' = IF file = Torn THEN file
               ELSE [k \in DOMAIN file |-> [file[k] EXCEPT !.left = IF @ > 0 THEN @ - 1 ELSE @]]
    /\ saves' = [i \in DOMAIN saves |-> IF saves[i] = Mkdir \/ saves[i] = Torn THEN saves[i]
                 ELSE [k \in DOMAIN saves[i] |->
                         [saves[i][k] EXCEPT !.left = IF @ > 0 THEN @ - 1 ELSE @]]]
    /\ UNCHANGED <<up, timer, caller, ops, crashes, spoilt>>

-----------------------------------------------------------------------------
\* The debounced timer: saveCache, which first makes the directory.
TimerFires ==
    /\ up \in {"loading", "up"} /\ timer /\ Len(saves) < MaxSaves
    /\ saves' = Append(saves, Mkdir) /\ timer' = FALSE
    /\ UNCHANGED <<up, data, file, caller, ops, crashes, spoilt>>

Others(i) == [j \in 1..Len(saves) - 1 |-> IF j < i THEN saves[j] ELSE saves[j + 1]]

\* JSON.stringify(this.data), and the write begins: the file is truncated.
SaveBegins(i) ==
    /\ up # "down" /\ saves[i] = Mkdir
    /\ saves' = [saves EXCEPT ![i] = data]
    /\ file' = Torn
    /\ spoilt' = (Writing # {})
    /\ UNCHANGED <<up, data, timer, caller, ops, crashes>>

\* The write ends, or fails and is logged.  One that overlapped another leaves
\* what it wrote, what the other did, or a mixture.
SaveEnds(i) ==
    /\ up # "down" /\ i \in Writing
    /\ \E ok \in BOOLEAN :
         /\ file' \in {IF ok THEN saves[i] ELSE Torn}
                       \cup IF spoilt THEN {file, Torn} ELSE {}
         /\ spoilt' = (spoilt \/ ~ok)
    /\ saves' = Others(i)
    /\ UNCHANGED <<up, data, timer, caller, ops, crashes>>

\* close: a pending save is made and awaited; one the timer started is not.
Close ==
    /\ up = "up" /\ \A c \in Callers : caller[c] = None
    /\ saves' = IF timer THEN Append(saves, Mkdir) ELSE saves
    /\ timer' = FALSE /\ up' = "closed"
    /\ UNCHANGED <<data, file, caller, ops, crashes, spoilt>>

\* The process ends, by itself or not.
Crash ==
    /\ up \in {"up", "closed"} /\ crashes < MaxCrashes
    /\ up' = "down" /\ crashes' = crashes + 1
    /\ data' = Empty /\ timer' = FALSE /\ saves' = << >>
    /\ caller' = [c \in Callers |-> None]
    /\ spoilt' = (spoilt \/ Writing # {})
    /\ UNCHANGED <<file, ops>>

Restart ==
    /\ up = "down"
    /\ up' = "loading"
    /\ data' = Empty
    /\ UNCHANGED <<file, timer, saves, caller, ops, crashes, spoilt>>

Next ==
    \/ Load \/ Clear \/ Cleanup \/ Tick \/ TimerFires \/ Close \/ Crash \/ Restart
    \/ \E k \in Keys : Set(k) \/ GetExpired(k) \/ Delete(k)
    \/ \E c \in Callers : IncrementWrite(c) \/ \E k \in Keys : IncrementRead(c, k)
    \/ \E i \in DOMAIN saves : SaveBegins(i) \/ SaveEnds(i)

Spec == Init /\ [][Next]_vars

-----------------------------------------------------------------------------
\* The state is well formed, and only a running cache saves.
TypeOK ==
    /\ up \in {"loading", "up", "closed", "down"}
    /\ DOMAIN data \subseteq Keys /\ Len(saves) <= MaxSaves + 1
    /\ up = "down" => saves = << >> /\ ~timer
    /\ up = "loading" => data = Empty

\* The debounce and a change in the middle of a save lose nothing: when no save
\* is pending or under way, and the last write that began alone stayed alone,
\* did not fail and met no crash, the file is what is in memory.  After a write
\* that failed, or that overlapped another, the file may be older than memory,
\* or unreadable, until the next change: saveCache neither waits nor retries.
SavedWhenQuiet ==
    up = "up" /\ ~timer /\ saves = << >> /\ ~spoilt => file = data
=============================================================================
