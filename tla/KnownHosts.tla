----------------------------- MODULE KnownHosts -----------------------------
(***************************************************************************)
(* The cached known_hosts callback (ssh/utils.go): concurrent KnownHosts,  *)
(* EnsureKnownHosts and CheckKnownHost against AddKnownHost, for one file. *)
(* A callback is the set of hosts it was read with; file times come from   *)
(* the clock.                                                              *)
(***************************************************************************)
EXTENDS Naturals

CONSTANTS
    Checkers,   \* goroutines that look a host up, again and again
    Hosts,      \* each host is added once, by a goroutine of its own
    Interval,   \* knownHostsStatInterval
    MaxTime,    \* bound on the clock
    NoEntry     \* there is no cache entry

ASSUME IntervalAssumption == Interval \in Nat \ {0}

VARIABLES
    now,        \* the clock
    exists,     \* the file exists
    content,    \* the hosts in the file
    mtime,      \* the file's modification time
    cache,      \* knownHostsCache[file]
    hostPC,     \* per checker: its step
    at,         \* per checker: the time it read first
    entry,      \* per checker: the entry it read
    stat,       \* per checker: the modification time it read
    got,        \* per checker: the callback it got
    add,        \* per host: AddKnownHost's step
    written     \* per host: when it was written, 0 before

fileVars == <<exists, content, mtime>>
checkVars == <<hostPC, at, entry, stat, got>>
hostVars == <<now, fileVars, cache, checkVars, add, written>>

HostsInit ==
    /\ now = 1 /\ exists = FALSE /\ content = {} /\ mtime = 0 /\ cache = NoEntry
    /\ hostPC = [c \in Checkers |-> "idle"] /\ at = [c \in Checkers |-> 0]
    /\ entry = [c \in Checkers |-> NoEntry] /\ stat = [c \in Checkers |-> 0]
    /\ got = [c \in Checkers |-> {}]
    /\ add = [h \in Hosts |-> "idle"] /\ written = [h \in Hosts |-> 0]

Tick ==
    /\ now < MaxTime /\ now' = now + 1
    /\ UNCHANGED <<fileVars, cache, checkVars, add, written>>

---------------------------------------------------------------------------
(* KnownHosts. *)

\* The call ends, its locals with it.
HostsDone(c, hosts) ==
    /\ hostPC' = [hostPC EXCEPT ![c] = "done"] /\ got' = [got EXCEPT ![c] = hosts]
    /\ entry' = [entry EXCEPT ![c] = NoEntry] /\ stat' = [stat EXCEPT ![c] = 0]

\* EnsureKnownHosts makes the file when it is missing; KnownHosts starts with
\* the time.
Begin(c) ==
    /\ hostPC[c] = "idle"
    /\ \/ UNCHANGED fileVars
       \/ /\ ~exists /\ exists' = TRUE /\ mtime' = now /\ UNCHANGED content
    /\ hostPC' = [hostPC EXCEPT ![c] = "read"] /\ at' = [at EXCEPT ![c] = now]
    /\ UNCHANGED <<now, cache, entry, stat, got, add, written>>

\* Under the read lock; a fresh entry answers.
ReadCache(c) ==
    /\ hostPC[c] = "read"
    /\ IF cache # NoEntry /\ at[c] < cache.lastStat + Interval
         THEN HostsDone(c, cache.hosts)
         ELSE /\ hostPC' = [hostPC EXCEPT ![c] = "stat"]
              /\ entry' = [entry EXCEPT ![c] = cache]
              /\ UNCHANGED <<stat, got>>
    /\ UNCHANGED <<now, fileVars, cache, at, add, written>>

\* os.Stat: without a file an old entry answers, and without one the call
\* fails; a file no newer than the entry is not read again.
Stat(c) ==
    /\ hostPC[c] = "stat"
    /\ IF ~exists
         THEN HostsDone(c, IF entry[c] = NoEntry THEN {} ELSE entry[c].hosts)
         ELSE /\ stat' = [stat EXCEPT ![c] = mtime]
              /\ hostPC' = [hostPC EXCEPT ![c] =
                   IF entry[c] # NoEntry /\ mtime <= entry[c].modTime THEN "renew" ELSE "load"]
              /\ UNCHANGED <<entry, got>>
    /\ UNCHANGED <<now, fileVars, cache, at, add, written>>

\* Under the write lock the entry read earlier is stored with the new time.
Renew(c) ==
    /\ hostPC[c] = "renew"
    /\ cache' = [entry[c] EXCEPT !.lastStat = at[c]]
    /\ HostsDone(c, entry[c].hosts)
    /\ UNCHANGED <<now, fileVars, at, add, written>>

\* knownhosts.New reads the file, or fails.
Load(c) ==
    /\ hostPC[c] = "load"
    /\ \/ /\ hostPC' = [hostPC EXCEPT ![c] = "store"] /\ got' = [got EXCEPT ![c] = content]
          /\ UNCHANGED <<entry, stat>>
       \/ HostsDone(c, Hosts)
    /\ UNCHANGED <<now, fileVars, cache, at, add, written>>

StoreMut(c) ==
    /\ hostPC[c] = "store"
    /\ cache' = [lastStat |-> now, modTime |-> mtime, hosts |-> got[c]]
    /\ HostsDone(c, got[c])
    /\ UNCHANGED <<now, fileVars, at, add, written>>
Store(c) ==
    /\ hostPC[c] = "store"
    /\ cache' = [lastStat |-> at[c], modTime |-> stat[c], hosts |-> got[c]]
    /\ HostsDone(c, got[c])
    /\ UNCHANGED <<now, fileVars, at, add, written>>

\* CheckKnownHost has its answer; the goroutine may call again.
Again(c) ==
    /\ hostPC[c] = "done"
    /\ hostPC' = [hostPC EXCEPT ![c] = "idle"] /\ at' = [at EXCEPT ![c] = 0]
    /\ got' = [got EXCEPT ![c] = {}]
    /\ UNCHANGED <<now, fileVars, cache, entry, stat, add, written>>

---------------------------------------------------------------------------
(* AddKnownHost. *)

\* The line is appended. Two appends never carry the same modification time.
AddWrite(h) ==
    /\ add[h] = "idle" /\ mtime < now
    /\ exists' = TRUE /\ content' = content \cup {h} /\ mtime' = now
    /\ add' = [add EXCEPT ![h] = "delete"] /\ written' = [written EXCEPT ![h] = now]
    /\ UNCHANGED <<now, cache, checkVars>>

AddInvalidate(h) ==
    /\ add[h] = "delete"
    /\ cache' = NoEntry /\ add' = [add EXCEPT ![h] = "done"]
    /\ UNCHANGED <<now, fileVars, checkVars, written>>

---------------------------------------------------------------------------

HostsNext ==
    \/ Tick
    \/ \E c \in Checkers :
         \/ Begin(c) \/ ReadCache(c) \/ Stat(c) \/ Renew(c) \/ Load(c) \/ Store(c)
         \/ Again(c)
    \/ \E h \in Hosts : AddWrite(h) \/ AddInvalidate(h)

---------------------------------------------------------------------------
(* Properties. *)

\* A lookup knows every host that was added at least the interval of one
\* second before it started: neither the write-back of an entry read before an
\* AddKnownHost nor a late store can hide it for longer. (A lookup whose read
\* fails answers with an error, here Hosts.)
CacheCatchesUp ==
    \A c \in Checkers, h \in Hosts :
        hostPC[c] = "done" /\ written[h] > 0 /\ written[h] + Interval <= at[c] => h \in got[c]

\* A lookup that starts after AddKnownHost returned knows the host
\* ("AddKnownHost appends a host key entry to knownFile and invalidates the
\* internal callback cache").
AddedIsVisible ==
    \A h \in Hosts : add[h] = "done" /\ cache # NoEntry => h \in cache.hosts
=============================================================================
