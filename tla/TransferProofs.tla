--------------------------- MODULE TransferProofs ---------------------------
(***************************************************************************)
(* Files and what arrives in pieces.  The cache of the known hosts file    *)
(* never falls behind it for longer than the interval, for any number of   *)
(* lookups and hosts.                                                      *)
(*                                                                         *)
(* A parallel transfer that returns nil has written every byte of the file *)
(* once, for any length, chunk size and number of workers.  Every offset   *)
(* below the producer's is written, or waits in one task only: the tasks   *)
(* of the queue and of the workers are intervals in a row, and no worker   *)
(* leaves before the queue is empty unless there was an error.  The last   *)
(* part is about the other data that arrives in pieces: acks and binary    *)
(* events of a Socket.IO session and the blocks of the datagram wrapper.   *)
(***************************************************************************)
EXTENDS Transfer, Traffic, KnownHosts, TLAPS

---------------------------------------------------------------------------
(* The known hosts cache.  A callback read from the file knows the hosts   *)
(* that were in it at the file's modification time, and those that were    *)
(* there before the lookup began.                                          *)

HostsSpec == HostsInit /\ [][HostsNext]_hostVars

Entry == [lastStat : Nat, modTime : Nat, hosts : SUBSET Hosts]

HostsTypeOK ==
    /\ now \in Nat /\ exists \in BOOLEAN /\ content \in SUBSET Hosts /\ mtime \in Nat
    /\ cache \in Entry \cup {NoEntry}
    /\ hostPC \in [Checkers -> {"idle", "read", "stat", "renew", "load", "store", "done"}]
    /\ at \in [Checkers -> Nat] /\ entry \in [Checkers -> Entry \cup {NoEntry}]
    /\ stat \in [Checkers -> Nat] /\ got \in [Checkers -> SUBSET Hosts]
    /\ add \in [Hosts -> {"idle", "delete", "done"}] /\ written \in [Hosts -> Nat]

\* A callback that was read from a file of modification time m, when the time
\* was t, has the hosts that were in the file then.
Knows(hosts, m, t) ==
    \A h \in Hosts : written[h] > 0 /\ (written[h] <= m \/ written[h] < t) => h \in hosts

Good(e) == e.modTime <= mtime /\ e.lastStat <= now /\ Knows(e.hosts, e.modTime, e.lastStat)

FileInv ==
    /\ mtime <= now
    /\ \A h \in Hosts : written[h] <= mtime /\ (written[h] > 0 => exists /\ h \in content)

CheckInv(c) ==
    /\ at[c] <= now /\ stat[c] <= mtime
    /\ entry[c] # NoEntry => Good(entry[c])
    /\ hostPC[c] = "renew" => entry[c] # NoEntry /\ Knows(entry[c].hosts, 0, at[c])
    /\ hostPC[c] = "store" => Knows(got[c], stat[c], at[c])
    /\ hostPC[c] = "done" =>
         \A h \in Hosts : written[h] > 0 /\ written[h] + Interval <= at[c] => h \in got[c]

HostsInv ==
    /\ HostsTypeOK /\ FileInv
    /\ cache # NoEntry => Good(cache)
    /\ \A c \in Checkers : CheckInv(c)

---------------------------------------------------------------------------
LEMMA HostsTypeInit ==
    ASSUME HostsInit
    PROVE  HostsTypeOK
  <1>1. now \in Nat /\ exists \in BOOLEAN /\ content \in SUBSET Hosts /\ mtime \in Nat
    BY ZenonT(30) DEF HostsInit
  <1>2. cache \in Entry \cup {NoEntry} /\ entry \in [Checkers -> Entry \cup {NoEntry}]
    BY Zenon DEF HostsInit
  <1>3. hostPC \in [Checkers -> {"idle", "read", "stat", "renew", "load", "store", "done"}]
        /\ add \in [Hosts -> {"idle", "delete", "done"}]
    BY Zenon DEF HostsInit
  <1>4. at \in [Checkers -> Nat] /\ stat \in [Checkers -> Nat] /\ written \in [Hosts -> Nat]
    BY Zenon DEF HostsInit
  <1>5. got \in [Checkers -> SUBSET Hosts]
    BY Zenon DEF HostsInit
  <1> QED
    BY Zenon, <1>1, <1>2, <1>3, <1>4, <1>5 DEF HostsTypeOK

\* Every step keeps the types.
LEMMA HostsTypeNext ==
    ASSUME HostsInv, [HostsNext]_hostVars
    PROVE  HostsTypeOK'
  <1> USE DEF HostsInv, HostsTypeOK
  <1>1. CASE Tick
    BY <1>1 DEF Tick, fileVars, checkVars
  <1>2. ASSUME NEW c \in Checkers, Begin(c) PROVE HostsTypeOK'
    BY ZenonT(30), <1>2 DEF Begin, fileVars
  <1>3. ASSUME NEW c \in Checkers, ReadCache(c) PROVE HostsTypeOK'
    BY <1>3 DEF ReadCache, HostsDone, Entry, fileVars
  <1>4. ASSUME NEW c \in Checkers, Stat(c) PROVE HostsTypeOK'
    BY <1>4 DEF Stat, HostsDone, Entry, fileVars
  <1>5. ASSUME NEW c \in Checkers, Renew(c) PROVE HostsTypeOK'
    BY <1>5 DEF Renew, HostsDone, Entry, fileVars, CheckInv
  <1>6. ASSUME NEW c \in Checkers, Load(c) PROVE HostsTypeOK'
    BY <1>6 DEF Load, HostsDone, fileVars
  <1>7. ASSUME NEW c \in Checkers, Store(c) PROVE HostsTypeOK'
    BY Zenon, <1>7 DEF Store, HostsDone, Entry, fileVars
  <1>8. ASSUME NEW c \in Checkers, Again(c) PROVE HostsTypeOK'
    BY Zenon, <1>8 DEF Again, fileVars
  <1>9. ASSUME NEW h \in Hosts, AddWrite(h) PROVE HostsTypeOK'
    BY Zenon, <1>9 DEF AddWrite, checkVars
  <1>10. ASSUME NEW h \in Hosts, AddInvalidate(h) PROVE HostsTypeOK'
    BY Zenon, <1>10 DEF AddInvalidate, fileVars, checkVars
  <1>11. CASE UNCHANGED hostVars
    BY Zenon, <1>11 DEF hostVars, fileVars, checkVars
  <1> QED
    BY Zenon, <1>1, <1>2, <1>3, <1>4, <1>5, <1>6, <1>7, <1>8, <1>9, <1>10, <1>11 DEF HostsNext

---------------------------------------------------------------------------
LEMMA FileNext ==
    ASSUME HostsInv, [HostsNext]_hostVars
    PROVE  FileInv'
  <1> USE DEF HostsInv, HostsTypeOK, FileInv
  <1>1. CASE Tick
    BY <1>1 DEF Tick, fileVars
  <1>2. ASSUME NEW c \in Checkers, Begin(c) PROVE FileInv'
    BY <1>2 DEF Begin, fileVars
  <1>3. ASSUME NEW h \in Hosts, AddWrite(h) PROVE FileInv'
    BY <1>3 DEF AddWrite
  <1>4. CASE UNCHANGED <<now, fileVars, written>>
    BY Zenon, <1>4 DEF fileVars
  <1>5. ASSUME NEW c \in Checkers,
               ReadCache(c) \/ Stat(c) \/ Renew(c) \/ Load(c) \/ Store(c) \/ Again(c)
        PROVE  UNCHANGED <<now, fileVars, written>>
    BY Zenon, <1>5 DEF ReadCache, Stat, Renew, Load, Store, Again
  <1>6. ASSUME NEW h \in Hosts, AddInvalidate(h) PROVE UNCHANGED <<now, fileVars, written>>
    BY Zenon, <1>6 DEF AddInvalidate
  <1> QED
    BY Zenon, <1>1, <1>2, <1>3, <1>4, <1>5, <1>6 DEF HostsNext, hostVars

\* What a step leaves of the file, of the clock and of the callbacks.
Later == written' = written /\ mtime <= mtime' /\ now <= now'

LEMMA StepIsLater ==
    ASSUME HostsInv, [HostsNext]_hostVars
    PROVE  Later \/ \E h \in Hosts : AddWrite(h)
  <1> USE DEF HostsInv, HostsTypeOK, FileInv, Later
  <1>1. CASE Tick
    BY <1>1 DEF Tick, fileVars
  <1>2. ASSUME NEW c \in Checkers, Begin(c) PROVE Later
    BY <1>2 DEF Begin, fileVars
  <1>3. ASSUME NEW c \in Checkers,
               ReadCache(c) \/ Stat(c) \/ Renew(c) \/ Load(c) \/ Store(c) \/ Again(c)
        PROVE  UNCHANGED <<now, fileVars, written>>
    BY Zenon, <1>3 DEF ReadCache, Stat, Renew, Load, Store, Again
  <1>4. ASSUME NEW h \in Hosts, AddInvalidate(h) PROVE UNCHANGED <<now, fileVars, written>>
    BY Zenon, <1>4 DEF AddInvalidate
  <1>5. CASE UNCHANGED <<now, fileVars, written>>
    BY <1>5 DEF fileVars
  <1> QED
    BY Zenon, <1>1, <1>2, <1>3, <1>4, <1>5 DEF HostsNext, hostVars

\* What a callback knows it still knows, since a later line is newer.
LEMMA KnowsNext ==
    ASSUME HostsInv, [HostsNext]_hostVars, NEW hosts, NEW m \in Nat, NEW t \in Nat,
           m <= mtime, t <= now, Knows(hosts, m, t)
    PROVE  Knows(hosts, m, t)'
  <1>1. CASE Later
    BY Zenon, <1>1 DEF Later, Knows
  <1>2. ASSUME NEW g \in Hosts, AddWrite(g) PROVE Knows(hosts, m, t)'
    <2>1. ASSUME NEW h \in Hosts, written'[h] > 0, written'[h] <= m \/ written'[h] < t
          PROVE  h \in hosts
      <3>1. h # g
        BY <1>2, <2>1 DEF HostsInv, HostsTypeOK, FileInv, AddWrite
      <3> QED
        BY Zenon, <1>2, <2>1, <3>1 DEF HostsInv, HostsTypeOK, Knows, AddWrite
    <2> QED
      BY Zenon, <2>1 DEF Knows
  <1> QED
    BY Zenon, <1>1, <1>2, StepIsLater

\* An entry that was good stays good.
LEMMA GoodNext ==
    ASSUME HostsInv, [HostsNext]_hostVars, NEW e \in Entry, Good(e)
    PROVE  Good(e)'
  <1>1. e.modTime \in Nat /\ e.lastStat \in Nat
    BY Zenon DEF Entry
  <1>2. Knows(e.hosts, e.modTime, e.lastStat)'
    BY Zenon, <1>1, KnowsNext DEF Good
  <1>3. mtime \in Nat /\ now \in Nat /\ mtime' \in Nat /\ now' \in Nat
    BY Zenon, HostsTypeNext DEF HostsInv, HostsTypeOK
  <1>4. mtime <= mtime' /\ now <= now'
    <2>1. ASSUME NEW g \in Hosts, AddWrite(g) PROVE mtime <= mtime' /\ now <= now'
      BY <1>3, <2>1 DEF AddWrite
    <2> QED
      BY Zenon, <2>1, StepIsLater DEF Later
  <1> QED
    BY <1>1, <1>2, <1>3, <1>4 DEF Good

---------------------------------------------------------------------------
\* The answer a lookup has is right for good: a host written now was not written
\* an interval before the lookup started.
LEMMA AnswerNext ==
    ASSUME Interval \in Nat \ {0}, HostsInv, [HostsNext]_hostVars, NEW hosts, NEW t \in Nat, t <= now,
           \A h \in Hosts : written[h] > 0 /\ written[h] + Interval <= t => h \in hosts
    PROVE  \A h \in Hosts : written'[h] > 0 /\ written'[h] + Interval <= t => h \in hosts
  <1>1. CASE Later
    BY Zenon, <1>1 DEF Later
  <1>2. ASSUME NEW g \in Hosts, AddWrite(g), NEW h \in Hosts, written'[h] > 0, written'[h] + Interval <= t
        PROVE  h \in hosts
    <2>1. h # g
      BY <1>2 DEF HostsInv, HostsTypeOK, AddWrite
    <2> QED
      BY Zenon, <1>2, <2>1 DEF HostsInv, HostsTypeOK, AddWrite
  <1> QED
    BY Zenon, <1>1, <1>2, StepIsLater

\* The steps of others leave a lookup's invariant alone.
LEMMA OthersKeep ==
    ASSUME Interval \in Nat \ {0}, HostsInv, [HostsNext]_hostVars, NEW c \in Checkers,
           UNCHANGED <<hostPC[c], at[c], entry[c], stat[c], got[c]>>
    PROVE  CheckInv(c)'
  <1>1. /\ at[c] \in Nat /\ stat[c] \in Nat /\ 0 \in Nat /\ entry[c] \in Entry \cup {NoEntry}
        /\ now \in Nat /\ mtime \in Nat /\ now' \in Nat /\ mtime' \in Nat
    BY Zenon, HostsTypeNext DEF HostsInv, HostsTypeOK
  <1>2. CheckInv(c)
    BY Zenon DEF HostsInv
  <1>3. mtime <= mtime' /\ now <= now'
    <2>1. ASSUME NEW g \in Hosts, AddWrite(g) PROVE mtime <= mtime' /\ now <= now'
      BY SMTT(30), <1>1, <2>1 DEF AddWrite
    <2> QED
      BY Zenon, <2>1, StepIsLater DEF Later
  <1>4. at[c]' <= now' /\ stat[c]' <= mtime'
    BY SMTT(30), <1>1, <1>2, <1>3 DEF CheckInv
  <1>5. entry[c]' # NoEntry => Good(entry[c])'
    <2>1. SUFFICES ASSUME entry[c] # NoEntry PROVE Good(entry[c])'
      BY Zenon
    <2>2. ASSUME NEW e \in Entry, e = entry[c], Good(e) PROVE Good(entry[c])'
      <3>1. Good(e)'
        BY Zenon, <2>2, GoodNext
      <3>2. e = entry'[c]
        BY Zenon, <2>2
      <3> QED
        BY Zenon, <3>1, <3>2
    <2> QED
      BY Zenon, <1>1, <1>2, <2>1, <2>2 DEF CheckInv
  <1>6. hostPC[c]' = "renew" => entry[c]' # NoEntry /\ Knows(entry[c].hosts, 0, at[c])'
    <2>1. ASSUME NEW s, s = entry[c].hosts, NEW t \in Nat, t = at[c], Knows(s, 0, t)
          PROVE  Knows(entry[c].hosts, 0, at[c])'
      <3>1. Knows(s, 0, t)'
        BY <1>1, <1>2, <2>1, KnowsNext DEF CheckInv
      <3>2. s = entry'[c].hosts /\ t = at'[c]
        BY Zenon, <2>1
      <3> QED
        BY Zenon, <3>1, <3>2
    <2> QED
      BY Zenon, <1>1, <1>2, <2>1 DEF CheckInv
  <1>7. hostPC[c]' = "store" => Knows(got[c], stat[c], at[c])'
    <2>1. ASSUME NEW s, s = got[c], NEW m \in Nat, m = stat[c], NEW t \in Nat, t = at[c], Knows(s, m, t)
          PROVE  Knows(got[c], stat[c], at[c])'
      <3>1. Knows(s, m, t)'
        BY Zenon, <1>1, <1>2, <2>1, KnowsNext DEF CheckInv
      <3>2. s = got'[c] /\ t = at'[c] /\ m = stat'[c]
        BY Zenon, <2>1
      <3> QED
        BY Zenon, <3>1, <3>2
    <2> QED
      BY Zenon, <1>1, <1>2, <2>1 DEF CheckInv
  <1>8. hostPC[c]' = "done" =>
          \A h \in Hosts : written'[h] > 0 /\ written'[h] + Interval <= at'[c] => h \in got'[c]
    <2>1. SUFFICES ASSUME hostPC[c] = "done"
                   PROVE  \A h \in Hosts : written'[h] > 0 /\ written'[h] + Interval <= at[c] => h \in got[c]
      BY Zenon
    <2>2. at[c] <= now /\ \A h \in Hosts : written[h] > 0 /\ written[h] + Interval <= at[c] => h \in got[c]
      BY Zenon, <1>2, <2>1 DEF CheckInv
    <2> QED
      BY Zenon, <1>1, <2>2, AnswerNext
  <1> QED
    BY Zenon, <1>4, <1>5, <1>6, <1>7, <1>8 DEF CheckInv

---------------------------------------------------------------------------
\* What the invariant says of one lookup and of the entries it meets.
CheckFacts(c) ==
    /\ HostsTypeOK /\ FileInv /\ CheckInv(c)
    /\ cache # NoEntry => cache \in Entry /\ Good(cache)
    /\ entry[c] # NoEntry => entry[c] \in Entry /\ Good(entry[c])

\* A lookup that ends with an answer that knows what was added an interval before.
LEMMA AnswerKeeps ==
    ASSUME Interval \in Nat \ {0}, NEW c \in Checkers, CheckFacts(c),
           UNCHANGED <<now, fileVars, at, written>>, NEW hosts,
           HostsDone(c, hosts), Knows(hosts, 0, at[c] - Interval + 1)
    PROVE  CheckInv(c)'
  <1>1. /\ HostsTypeOK /\ FileInv /\ CheckInv(c)
        /\ cache # NoEntry => cache \in Entry /\ Good(cache)
        /\ entry[c] # NoEntry => entry[c] \in Entry /\ Good(entry[c])
    BY Zenon DEF CheckFacts
  <1>2. /\ hostPC'[c] = "done" /\ got'[c] = hosts /\ entry'[c] = NoEntry /\ stat'[c] = 0
    BY Zenon, <1>1 DEF HostsDone, HostsTypeOK
  <1>3. at'[c] <= now' /\ stat'[c] <= mtime'
    BY SMTT(30), <1>1, <1>2 DEF HostsTypeOK, CheckInv, fileVars
  <1>4. \A h \in Hosts : written'[h] > 0 /\ written'[h] + Interval <= at'[c] => h \in got'[c]
    BY SMTT(30), <1>1, <1>2 DEF HostsTypeOK, Knows
  <1> QED
    BY Zenon, <1>2, <1>3, <1>4 DEF CheckInv

\* A lookup's own steps, one lemma for each.
LEMMA BeginKeeps ==
    ASSUME Interval \in Nat \ {0}, NEW c \in Checkers, CheckFacts(c), Begin(c)
    PROVE  CheckInv(c)'
  <1>1. /\ HostsTypeOK /\ FileInv /\ CheckInv(c)
        /\ cache # NoEntry => cache \in Entry /\ Good(cache)
        /\ entry[c] # NoEntry => entry[c] \in Entry /\ Good(entry[c])
    BY Zenon DEF CheckFacts
  <1>2. hostPC'[c] = "read" /\ at'[c] = now /\ entry'[c] = entry[c] /\ stat'[c] = stat[c]
    BY Zenon, <1>1 DEF Begin, HostsTypeOK
  <1>3. now' = now /\ written' = written /\ mtime' \in Nat /\ mtime <= mtime'
    BY SMTT(30), <1>1 DEF Begin, HostsTypeOK, FileInv, fileVars
  <1>4. at'[c] <= now' /\ stat'[c] <= mtime'
    BY SMTT(30), <1>1, <1>2, <1>3 DEF HostsTypeOK, CheckInv
  <1>5. entry'[c] # NoEntry => Good(entry[c])'
    BY <1>1, <1>2, <1>3 DEF Good, Knows, HostsTypeOK, Entry
  <1> QED
    BY Zenon, <1>2, <1>4, <1>5 DEF CheckInv

LEMMA ReadCacheKeeps ==
    ASSUME Interval \in Nat \ {0}, NEW c \in Checkers, CheckFacts(c), ReadCache(c)
    PROVE  CheckInv(c)'
  <1>1. /\ HostsTypeOK /\ FileInv /\ CheckInv(c)
        /\ cache # NoEntry => cache \in Entry /\ Good(cache)
        /\ entry[c] # NoEntry => entry[c] \in Entry /\ Good(entry[c])
    BY Zenon DEF CheckFacts
  <1>2. UNCHANGED <<now, fileVars, at, written>>
    BY Zenon DEF ReadCache
  <1>3. CASE cache # NoEntry /\ at[c] < cache.lastStat + Interval
    <2>1. Knows(cache.hosts, 0, at[c] - Interval + 1)
      BY SMTT(30), <1>1, <1>3 DEF Good, Knows, Entry, HostsTypeOK
    <2> QED
      BY Zenon, AnswerKeeps, <1>2, <1>3, <2>1 DEF ReadCache
  <1>4. CASE ~(cache # NoEntry /\ at[c] < cache.lastStat + Interval)
    <2>1. hostPC'[c] = "stat" /\ entry'[c] = cache /\ stat'[c] = stat[c]
      BY ZenonT(30), <1>1, <1>4 DEF ReadCache, HostsTypeOK
    <2>2. entry'[c] # NoEntry => Good(entry[c])'
      BY Zenon, <1>1, <1>2, <2>1 DEF Good, Knows, fileVars
    <2> QED
      BY Zenon, <1>1, <1>2, <2>1, <2>2 DEF CheckInv, fileVars
  <1> QED
    BY Zenon, <1>3, <1>4

LEMMA StatKeeps ==
    ASSUME Interval \in Nat \ {0}, NEW c \in Checkers, CheckFacts(c), Stat(c)
    PROVE  CheckInv(c)'
  <1>1. /\ HostsTypeOK /\ FileInv /\ CheckInv(c)
        /\ cache # NoEntry => cache \in Entry /\ Good(cache)
        /\ entry[c] # NoEntry => entry[c] \in Entry /\ Good(entry[c])
    BY Zenon DEF CheckFacts
  <1>2. UNCHANGED <<now, fileVars, at, written>>
    BY Zenon DEF Stat
  <1>3. CASE ~exists
    <2>1. \A h \in Hosts : ~(written[h] > 0)
      BY Zenon, <1>1, <1>3 DEF FileInv
    <2>2. \A hosts : Knows(hosts, 0, at[c] - Interval + 1)
      BY Zenon, <2>1 DEF Knows
    <2> QED
      BY Zenon, AnswerKeeps, <1>2, <1>3, <2>2 DEF Stat
  <1>4. CASE exists
    <2>1. stat'[c] = mtime /\ entry'[c] = entry[c] /\ mtime' = mtime /\ at'[c] = at[c] /\ now' = now
      BY ZenonT(30), <1>1, <1>2, <1>4 DEF Stat, HostsTypeOK, fileVars
    <2>2. /\ hostPC'[c] \in {"renew", "load"}
          /\ hostPC'[c] = "renew" => entry[c] # NoEntry /\ mtime <= entry[c].modTime
      BY Zenon, <1>1, <1>4 DEF Stat, HostsTypeOK
    <2>3. entry'[c] # NoEntry => Good(entry[c])'
      BY Zenon, <1>1, <1>2, <2>1 DEF Good, Knows, fileVars
    <2>4. hostPC'[c] = "renew" => Knows(entry[c].hosts, 0, at[c])'
      BY SMTT(30), <1>1, <1>2, <2>1, <2>2 DEF Good, Knows, Entry, FileInv, HostsTypeOK
    <2>5. at'[c] <= now' /\ stat'[c] <= mtime'
      BY SMTT(30), <1>1, <2>1 DEF CheckInv, HostsTypeOK
    <2> QED
      BY ZenonT(30), <2>1, <2>2, <2>3, <2>4, <2>5 DEF CheckInv
  <1> QED
    BY ZenonT(30), <1>3, <1>4

LEMMA RenewKeeps ==
    ASSUME Interval \in Nat \ {0}, NEW c \in Checkers, CheckFacts(c), Renew(c)
    PROVE  CheckInv(c)'
  <1>1. /\ HostsTypeOK /\ FileInv /\ CheckInv(c)
        /\ cache # NoEntry => cache \in Entry /\ Good(cache)
        /\ entry[c] # NoEntry => entry[c] \in Entry /\ Good(entry[c])
    BY Zenon DEF CheckFacts
  <1>2. UNCHANGED <<now, fileVars, at, written>> /\ HostsDone(c, entry[c].hosts)
    BY Zenon DEF Renew
  <1>3. Knows(entry[c].hosts, 0, at[c] - Interval + 1)
    BY <1>1 DEF Renew, CheckInv, Knows, HostsTypeOK
  <1> QED
    BY ZenonT(30), AnswerKeeps, <1>2, <1>3

LEMMA LoadKeeps ==
    ASSUME Interval \in Nat \ {0}, NEW c \in Checkers, CheckFacts(c), Load(c)
    PROVE  CheckInv(c)'
  <1>1. /\ HostsTypeOK /\ FileInv /\ CheckInv(c)
        /\ cache # NoEntry => cache \in Entry /\ Good(cache)
        /\ entry[c] # NoEntry => entry[c] \in Entry /\ Good(entry[c])
    BY Zenon DEF CheckFacts
  <1>2. UNCHANGED <<now, fileVars, at, written>>
    BY Zenon DEF Load
  <1>3. CASE HostsDone(c, Hosts)
    <2>1. Knows(Hosts, 0, at[c] - Interval + 1)
      BY Zenon DEF Knows
    <2> QED
      BY Zenon, AnswerKeeps, <1>2, <1>3, <2>1
  <1>4. CASE ~HostsDone(c, Hosts)
    <2>1. hostPC'[c] = "store" /\ got'[c] = content /\ entry'[c] = entry[c] /\ stat'[c] = stat[c]
      BY Zenon, <1>1, <1>4 DEF Load, HostsTypeOK
    <2>2. Knows(got[c], stat[c], at[c])'
      BY ZenonT(30), <1>1, <1>2, <2>1 DEF Knows, FileInv
    <2>3. entry'[c] # NoEntry => Good(entry[c])'
      BY ZenonT(30), <1>1, <1>2, <2>1 DEF Good, Knows, fileVars
    <2> QED
      BY ZenonT(30), <1>1, <1>2, <2>1, <2>2, <2>3 DEF CheckInv, fileVars
  <1> QED
    BY Zenon, <1>3, <1>4

LEMMA StoreKeeps ==
    ASSUME Interval \in Nat \ {0}, NEW c \in Checkers, CheckFacts(c), Store(c)
    PROVE  CheckInv(c)'
  <1>1. /\ HostsTypeOK /\ FileInv /\ CheckInv(c)
        /\ cache # NoEntry => cache \in Entry /\ Good(cache)
        /\ entry[c] # NoEntry => entry[c] \in Entry /\ Good(entry[c])
    BY Zenon DEF CheckFacts
  <1>2. UNCHANGED <<now, fileVars, at, written>> /\ HostsDone(c, got[c])
    BY ZenonT(30) DEF Store
  <1>3. Knows(got[c], 0, at[c] - Interval + 1)
    <2>1. Knows(got[c], stat[c], at[c])
      BY ZenonT(30), <1>1 DEF Store, CheckInv
    <2>2. at[c] \in Nat /\ stat[c] \in Nat /\ \A h \in Hosts : written[h] \in Nat
      BY ZenonT(30), <1>1 DEF HostsTypeOK
    <2> QED
      BY SMTT(30), <2>1, <2>2 DEF Knows
  <1> QED
    BY ZenonT(30), AnswerKeeps, <1>2, <1>3

LEMMA AgainKeeps ==
    ASSUME Interval \in Nat \ {0}, NEW c \in Checkers, CheckFacts(c), Again(c)
    PROVE  CheckInv(c)'
  <1>1. /\ HostsTypeOK /\ FileInv /\ CheckInv(c)
        /\ cache # NoEntry => cache \in Entry /\ Good(cache)
        /\ entry[c] # NoEntry => entry[c] \in Entry /\ Good(entry[c])
    BY Zenon DEF CheckFacts
  <1>2. UNCHANGED <<now, fileVars, entry, stat, written>> /\ hostPC'[c] = "idle" /\ at'[c] = 0
    BY Zenon, <1>1 DEF Again, HostsTypeOK
  <1>3. entry'[c] # NoEntry => Good(entry[c])'
    BY Zenon, <1>1, <1>2 DEF Good, Knows, fileVars
  <1>4. at'[c] <= now' /\ stat'[c] <= mtime'
    BY <1>1, <1>2 DEF CheckInv, HostsTypeOK, fileVars
  <1> QED
    BY Zenon, <1>2, <1>3, <1>4 DEF CheckInv

\* Every step that a lookup takes itself keeps its part of the invariant.
LEMMA OwnKeeps ==
    ASSUME Interval \in Nat \ {0}, HostsInv, NEW c \in Checkers,
           \/ Begin(c) \/ ReadCache(c) \/ Stat(c) \/ Renew(c) \/ Load(c) \/ Store(c) \/ Again(c)
    PROVE  CheckInv(c)'
  <1>1. CheckFacts(c)
    BY Zenon DEF HostsInv, HostsTypeOK, CheckInv, CheckFacts
  <1> QED
    BY ZenonT(30), <1>1, BeginKeeps, ReadCacheKeeps, StatKeeps, RenewKeeps, LoadKeeps, StoreKeeps, AgainKeeps

\* What is written to the cache is good.
LEMMA CacheNext ==
    ASSUME HostsInv, [HostsNext]_hostVars
    PROVE  cache' # NoEntry => Good(cache)'
  <1>1. CASE UNCHANGED cache
    <2>1. SUFFICES ASSUME cache # NoEntry PROVE Good(cache)'
      BY Zenon, <1>1
    <2>2. ASSUME NEW e \in Entry, e = cache, Good(e) PROVE Good(cache)'
      <3>1. Good(e)' /\ e = cache'
        BY Zenon, <1>1, <2>2, GoodNext
      <3> QED
        BY Zenon, <3>1
    <2> QED
      BY Zenon, <2>1, <2>2 DEF HostsInv, HostsTypeOK
  <1>2. ASSUME NEW c \in Checkers, Renew(c) PROVE Good(cache)'
    <2>1. /\ entry[c] \in Entry /\ Good(entry[c]) /\ Knows(entry[c].hosts, 0, at[c])
          /\ at[c] <= now /\ HostsTypeOK
      BY Zenon, <1>2 DEF HostsInv, HostsTypeOK, CheckInv, Renew
    <2>2. /\ cache'.lastStat = at[c] /\ cache'.modTime = entry[c].modTime /\ cache'.hosts = entry[c].hosts
          /\ UNCHANGED <<now, mtime, written>>
      BY Zenon, <1>2, <2>1 DEF Renew, Entry, fileVars
    <2> QED
      BY Zenon, <2>1, <2>2 DEF Good, Knows
  <1>3. ASSUME NEW c \in Checkers, Store(c) PROVE Good(cache)'
    <2>1. stat[c] <= mtime /\ at[c] <= now /\ Knows(got[c], stat[c], at[c])
      BY Zenon, <1>3 DEF HostsInv, CheckInv, Store
    <2>2. /\ cache'.lastStat = at[c] /\ cache'.modTime = stat[c] /\ cache'.hosts = got[c]
          /\ UNCHANGED <<now, mtime, written>>
      BY Zenon, <1>3 DEF Store, fileVars
    <2> QED
      BY Zenon, <2>1, <2>2 DEF Good, Knows
  <1>4. ASSUME NEW h \in Hosts, AddInvalidate(h) PROVE cache' = NoEntry
    BY Zenon, <1>4 DEF AddInvalidate
  <1>5. ASSUME NEW c \in Checkers, Begin(c) \/ ReadCache(c) \/ Stat(c) \/ Load(c) \/ Again(c)
        PROVE  UNCHANGED cache
    BY Zenon, <1>5 DEF Begin, ReadCache, Stat, Load, Again
  <1>6. ASSUME Tick \/ (\E h \in Hosts : AddWrite(h)) \/ UNCHANGED hostVars PROVE UNCHANGED cache
    BY Zenon, <1>6 DEF Tick, AddWrite, hostVars
  <1> QED
    BY Zenon, <1>1, <1>2, <1>3, <1>4, <1>5, <1>6 DEF HostsNext

LEMMA ChecksNext ==
    ASSUME Interval \in Nat \ {0}, HostsInv, [HostsNext]_hostVars, NEW c \in Checkers
    PROVE  CheckInv(c)'
  <1>1. CASE UNCHANGED checkVars
    BY Zenon, <1>1, OthersKeep DEF checkVars
  <1>2. ASSUME NEW d \in Checkers,
               \/ Begin(d) \/ ReadCache(d) \/ Stat(d) \/ Renew(d) \/ Load(d) \/ Store(d) \/ Again(d)
        PROVE  CheckInv(c)'
    <2>1. CASE d = c
      BY Zenon, <1>2, <2>1, OwnKeeps
    <2>2. CASE d # c
      <3>1. UNCHANGED <<hostPC[c], at[c], entry[c], stat[c], got[c]>>
        BY Zenon, <1>2, <2>2 DEF Begin, ReadCache, Stat, Renew, Load, Store, Again, HostsDone, HostsInv, HostsTypeOK
      <3> QED
        BY Zenon, <3>1, OthersKeep
    <2> QED
      BY Zenon, <2>1, <2>2
  <1>3. ASSUME \/ Tick \/ UNCHANGED hostVars
               \/ \E h \in Hosts : AddWrite(h) \/ AddInvalidate(h)
        PROVE  UNCHANGED checkVars
    BY Zenon, <1>3 DEF Tick, hostVars, AddWrite, AddInvalidate
  <1> QED
    BY Zenon, <1>1, <1>2, <1>3 DEF HostsNext

LEMMA HostsInvInit ==
    ASSUME HostsInit
    PROVE  HostsInv
  <1>1. FileInv /\ cache = NoEntry
    BY DEF HostsInit, FileInv
  <1>2. ASSUME NEW c \in Checkers PROVE CheckInv(c)
    BY DEF HostsInit, CheckInv
  <1> QED
    BY Zenon, <1>1, <1>2, HostsTypeInit DEF HostsInv

---------------------------------------------------------------------------
\* A lookup knows every host that was added an interval or more before it
\* started, for any number of concurrent KnownHosts and AddKnownHost calls,
\* hosts and any interval: the entry that a slow lookup writes back, or stores
\* late, never counts as fresher than the file it was read from.
THEOREM CatchesUp ==
    HostsSpec => []CacheCatchesUp
  <1> USE IntervalAssumption
  <1>1. HostsInit => HostsInv
    BY Zenon, HostsInvInit
  <1>2. HostsInv /\ [HostsNext]_hostVars => HostsInv'
    <2>1. SUFFICES ASSUME HostsInv, [HostsNext]_hostVars PROVE HostsInv'
      BY Zenon
    <2>2. \A c \in Checkers : CheckInv(c)'
      BY Zenon, <2>1, ChecksNext
    <2> QED
      BY Zenon, <2>1, <2>2, HostsTypeNext, FileNext, CacheNext DEF HostsInv
  <1>3. HostsInv => CacheCatchesUp
    BY Zenon DEF HostsInv, CheckInv, CacheCatchesUp
  <1> QED
    BY <1>1, <1>2, <1>3, PTL DEF HostsSpec

---------------------------------------------------------------------------
(* The parallel transfer.                                                  *)

TransferSpec == TransferInit /\ [][TransferNext]_transferVars

Job == [kind : {"uploadPar", "downloadPar", "upload", "download", "scp"},
        total : Nat, chunk : Nat, workers : Nat, avail : Nat]

Task == [offset : Nat, size : Nat]

TypeInv ==
    /\ job \in Job /\ offset \in Nat /\ errs \in Nat /\ dst \subseteq Nat
    /\ taskCh \in Seq(Task)
    /\ worker \in [Workers -> [pc : {"idle", "range", "copy", "exit"}, task : Task, written : Nat]]

End(t) == t.offset + t.size

\* What worker w has yet to write is From(w) .. End(worker[w].task) - 1.
From(w) == worker[w].task.offset + worker[w].written

Busy(w) == worker[w].pc = "copy"

PhaseInv ==
    /\ main = "open" /\ held > 0 /\ Parallel => job.chunk > 0
    /\ main = "open" => prod = "idle" /\ (Parallel => dst = {})
    /\ main = "wait" => prod # "idle"
    /\ main # "wait" => \A w \in Workers : worker[w].pc \in {"idle", "exit"}
    /\ prod = "idle" => taskCh = <<>> /\ offset = 0 /\ \A w \in Workers : worker[w].pc = "idle"
    /\ prod # "idle" => Parallel /\ job.chunk > 0
    /\ copier # "idle" \/ main \in {"start", "copied", "exec"} => job.kind = "scp"
    /\ prod # "done" /\ errs = 0 /\ ~abandoned => ~cancelled
    /\ prod = "done" /\ errs = 0 /\ ~abandoned => offset >= job.total
    /\ errs = 0 => \A w \in Workers : worker[w].pc = "exit" => prod = "done" /\ taskCh = <<>>

QueueInv ==
    /\ \A i \in 1 .. Len(taskCh) :
         /\ taskCh[i].size > 0 /\ End(taskCh[i]) <= offset /\ End(taskCh[i]) <= job.total
         /\ \A b \in dst : b < taskCh[i].offset \/ End(taskCh[i]) <= b
    /\ \A i, j \in 1 .. Len(taskCh) : i < j => End(taskCh[i]) <= taskCh[j].offset

WorkInv ==
    \A w \in Workers : Busy(w) =>
        /\ worker[w].written < worker[w].task.size
        /\ End(worker[w].task) <= offset /\ End(worker[w].task) <= job.total
        /\ \A b \in dst : b < From(w) \/ End(worker[w].task) <= b
        /\ \A i \in 1 .. Len(taskCh) : End(worker[w].task) <= taskCh[i].offset

ApartInv ==
    \A w, v \in Workers : Busy(w) /\ Busy(v) /\ w # v =>
        End(worker[w].task) <= worker[v].task.offset \/ End(worker[v].task) <= worker[w].task.offset

Queued(b) == \E i \in 1 .. Len(taskCh) : taskCh[i].offset <= b /\ b < End(taskCh[i])
InWork(b) == \E w \in Workers : Busy(w) /\ From(w) <= b /\ b < End(worker[w].task)

CoverInv ==
    /\ Parallel => \A b \in dst : b < offset /\ b < job.total
    /\ errs = 0 => \A b \in Nat : b < offset /\ b < job.total => b \in dst \/ Queued(b) \/ InWork(b)

DoneInv ==
    main = "sync" \/ (main = "done" /\ result = "ok") =>
        abandoned \/ job.kind = "scp" \/ dst = Bytes(0, job.total)

TransferInv ==
    TypeInv /\ PhaseInv /\ QueueInv /\ WorkInv /\ ApartInv /\ CoverInv /\ DoneInv /\ twice = {}

---------------------------------------------------------------------------
LEMMA BytesAre ==
    ASSUME NEW a \in Nat, NEW n \in Nat
    PROVE  \A b : b \in Bytes(a, n) <=> b \in Nat /\ a <= b /\ b < a + n
  BY DEF Bytes

LEMMA Least ==
    ASSUME NEW a \in Nat, NEW b \in Nat
    PROVE  MinOf(a, b) \in {a, b} /\ MinOf(a, b) <= a /\ MinOf(a, b) <= b
  BY DEF MinOf

LEMMA TaskTypes ==
    ASSUME TypeInv, NEW i \in 1 .. Len(taskCh)
    PROVE  /\ taskCh[i] \in Task /\ taskCh[i].offset \in Nat /\ taskCh[i].size \in Nat
           /\ End(taskCh[i]) \in Nat
  <1>1. taskCh[i] \in Task
    BY DEF TypeInv
  <1>2. taskCh[i].offset \in Nat /\ taskCh[i].size \in Nat
    BY Zenon, <1>1 DEF Task
  <1> QED
    BY <1>1, <1>2 DEF End

LEMMA HaveWorkers ==
    ASSUME TypeInv
    PROVE  1 \in Workers /\ NumWorkers \in Nat /\ NumWorkers > 0
  <1>1. NumWorkers \in Nat /\ NumWorkers > 0
    BY DEF TypeInv, Job, NumWorkers
  <1> QED
    BY <1>1 DEF Workers

\* Steps of the caller leave tasks and data alone.
LEMMA DataFrame ==
    ASSUME TransferInv, UNCHANGED <<job, offset, errs, taskCh, worker, dst>>
    PROVE  TypeInv' /\ QueueInv' /\ WorkInv' /\ ApartInv' /\ CoverInv'
  <1>1. TypeInv'
    BY Zenon DEF TransferInv, TypeInv, Workers, NumWorkers
  <1>2. QueueInv'
    BY Zenon DEF TransferInv, QueueInv, End
  <1>3. WorkInv'
    BY Zenon DEF TransferInv, WorkInv, Workers, NumWorkers, Busy, From, End
  <1>4. ApartInv'
    BY Zenon DEF TransferInv, ApartInv, Workers, NumWorkers, Busy, End
  <1>5. CoverInv'
    BY Zenon DEF TransferInv, CoverInv, Parallel, Queued, InWork, Workers, NumWorkers, Busy, From, End
  <1> QED
    BY Zenon, <1>1, <1>2, <1>3, <1>4, <1>5

\* Steps that leave the pool alone and do not end the call with success.
LEMMA OpenKeeps ==
    ASSUME TransferInv, InvalidChunkSize \/ Open \/ WriteFile \/ WriteFileReturns \/ Sync \/ Abandon
    PROVE  TransferInv'
  <1>1. UNCHANGED <<job, offset, errs, taskCh, worker, dst, prod, twice>>
    BY Zenon DEF InvalidChunkSize, Open, WriteFile, WriteFileReturns, Sync, Abandon, poolVars, callVars
  <1>2. PhaseInv'
    <2>1. CASE InvalidChunkSize
      BY <1>1, <2>1 DEF TransferInv, PhaseInv, InvalidChunkSize, Return, Parallel, Workers, NumWorkers
    <2>4. CASE Open
      <3>1. /\ main = "open" /\ (Parallel => job.chunk > 0) /\ UNCHANGED <<copier, cancelled, abandoned>>
            /\ main' = main \/ (main' = "done" /\ held' = 0)
        BY Zenon, <2>4 DEF Open, Return
      <3>2. UNCHANGED <<Parallel, Workers>> /\ PhaseInv
        BY Zenon, <1>1 DEF Parallel, Workers, NumWorkers, TransferInv
      <3> QED
        BY <1>1, <3>1, <3>2 DEF PhaseInv
    <2>2. CASE WriteFile \/ WriteFileReturns \/ Sync
      BY <1>1, <2>2 DEF TransferInv, PhaseInv, WriteFile, WriteFileReturns, Sync, Return, Parallel, Workers, NumWorkers
    <2>3. CASE Abandon
      BY Zenon, <1>1, <2>3 DEF TransferInv, PhaseInv, Abandon, callVars, Parallel, Workers, NumWorkers
    <2> QED
      BY Zenon, <2>1, <2>2, <2>3, <2>4
  <1>3. DoneInv'
    <2>1. CASE InvalidChunkSize \/ Open
      BY Zenon, <1>1, <2>1 DEF TransferInv, DoneInv, InvalidChunkSize, Open, Return
    <2>2. CASE WriteFile \/ WriteFileReturns
      BY Zenon, <1>1, <2>2 DEF TransferInv, DoneInv, PhaseInv, WriteFile, WriteFileReturns, Return
    <2>3. CASE Sync \/ Abandon
      BY Zenon, <1>1, <2>3 DEF TransferInv, DoneInv, Sync, Abandon, callVars, Return
    <2> QED
      BY Zenon, <2>1, <2>2, <2>3
  <1> QED
    BY Zenon, <1>1, <1>2, <1>3, DataFrame DEF TransferInv

\* The transfers of one goroutine.
LEMMA SequentialKeeps ==
    ASSUME TransferInv, Sequential \/ CopierStep
    PROVE  TransferInv'
  <1>1. UNCHANGED <<job, offset, errs, taskCh, worker, prod, twice, cancelled, abandoned>>
    BY Zenon DEF Sequential, CopierStep, poolVars, callVars
  <1>2. ~Parallel /\ prod = "idle" /\ taskCh = <<>> /\ offset = 0
        /\ \A w \in Workers : worker[w].pc = "idle"
    BY Zenon DEF TransferInv, PhaseInv, Sequential, CopierStep, Parallel
  <1>3. dst' \subseteq Nat
    <2>1. \A n \in Nat : Bytes(0, n) \subseteq Nat
      BY DEF Bytes
    <2>2. job.total \in Nat /\ job.avail \in Nat /\ dst \subseteq Nat
      BY Zenon DEF TransferInv, TypeInv, Job
    <2>3. CASE Sequential
      <3>1. PICK n \in 0 .. job.total : dst' = Bytes(0, n)
        BY Zenon, <2>3 DEF Sequential
      <3> QED
        BY <2>1, <2>2, <3>1
    <2>4. CASE CopierStep
      <3>1. \/ \E n \in 0 .. job.avail : dst' = dst \cup Bytes(0, n)
            \/ \E n \in 0 .. 0 : dst' = dst \cup Bytes(0, n)
            \/ dst' = Bytes(0, job.avail)
            \/ dst' = dst
        BY Zenon, <2>4 DEF CopierStep
      <3>2. CASE \E n \in 0 .. job.avail : dst' = dst \cup Bytes(0, n)
        <4>1. PICK n \in 0 .. job.avail : dst' = dst \cup Bytes(0, n)
          BY Zenon, <3>2
        <4>2. n \in Nat
          BY <2>2
        <4>3. Bytes(0, n) \subseteq Nat
          BY Zenon, <2>1, <4>2
        <4> QED
          BY ZenonT(30), <2>2, <4>1, <4>3
      <3>3. CASE \E n \in 0 .. 0 : dst' = dst \cup Bytes(0, n)
        <4>1. dst' = dst \cup Bytes(0, 0)
          BY <3>3
        <4>2. Bytes(0, 0) \subseteq Nat
          BY Zenon, <2>1
        <4> QED
          BY ZenonT(30), <2>2, <4>1, <4>2
      <3> QED
        BY ZenonT(30), <2>1, <2>2, <3>1, <3>2, <3>3
    <2> QED
      BY Zenon, <2>3, <2>4
  <1>4. TypeInv'
    BY Zenon, <1>1, <1>3 DEF TransferInv, TypeInv, Workers, NumWorkers
  <1>5. QueueInv' /\ WorkInv' /\ ApartInv'
    BY <1>1, <1>2 DEF QueueInv, WorkInv, ApartInv, Busy, Workers, NumWorkers
  <1>6. CoverInv'
    BY <1>1, <1>2 DEF CoverInv, Parallel
  <1>7. PhaseInv'
    <2>1. CASE Sequential
      BY <1>1, <1>2, <2>1 DEF TransferInv, PhaseInv, Sequential, Return, Parallel, Workers, NumWorkers
    <2>2. CASE CopierStep
      BY <1>1, <1>2, <2>2 DEF TransferInv, PhaseInv, CopierStep, callVars, Parallel, Workers, NumWorkers
    <2> QED
      BY Zenon, <2>1, <2>2
  <1>8. DoneInv'
    <2>1. CASE Sequential
      <3>1. PICK n \in 0 .. job.total :
              /\ dst' = Bytes(0, n)
              /\ \/ Return("error")
                 \/ n = job.total
        BY Zenon, <2>1 DEF Sequential
      <3> QED
        BY Zenon, <1>1, <3>1 DEF DoneInv, Return
    <2>2. CASE CopierStep
      BY Zenon, <1>1, <2>2 DEF TransferInv, PhaseInv, DoneInv, CopierStep
    <2> QED
      BY Zenon, <2>1, <2>2
  <1> QED
    BY Zenon, <1>1, <1>4, <1>5, <1>6, <1>7, <1>8 DEF TransferInv

\* The workers are started, or there is nothing to do.
LEMMA StartKeeps ==
    ASSUME TransferInv, UploadParallel \/ DownloadParallel
    PROVE  TransferInv'
  <1>1. UNCHANGED <<job, offset, errs, taskCh, dst, twice, cancelled, abandoned, copier>>
    BY Zenon DEF UploadParallel, DownloadParallel
  <1>2. Parallel /\ main = "open" /\ held > 0 /\ prod = "idle" /\ dst = {}
        /\ taskCh = <<>> /\ offset = 0
    BY DEF TransferInv, PhaseInv, UploadParallel, DownloadParallel, Parallel, Handles
  <1>3. CASE job.total = 0
    <2>1. UNCHANGED <<worker, prod>> /\ main' \in {"done", "sync"}
      BY Zenon, <1>3 DEF UploadParallel, DownloadParallel, Return
    <2>2. PhaseInv'
      BY Zenon, <1>1, <1>2, <2>1 DEF TransferInv, PhaseInv, Parallel, Workers, NumWorkers
    <2>3. DoneInv'
      BY <1>1, <1>2, <1>3 DEF DoneInv, Bytes
    <2> QED
      BY Zenon, <1>1, <2>1, <2>2, <2>3, DataFrame DEF TransferInv
  <1>4. CASE job.total # 0
    <2>1. /\ main' = "wait" /\ prod' = "loop"
          /\ worker' = [w \in Workers |-> [worker[w] EXCEPT !.pc = "range"]]
      BY Zenon, <1>4 DEF UploadParallel, DownloadParallel
    <2>2. \A w \in Workers : worker'[w].pc = "range"
      BY Zenon, <2>1 DEF TransferInv, TypeInv
    <2>3. TypeInv'
      BY ZenonT(30), <1>1, <2>1 DEF TransferInv, TypeInv, Workers, NumWorkers
    <2>4. QueueInv' /\ WorkInv' /\ ApartInv'
      BY <1>1, <1>2, <2>2 DEF QueueInv, WorkInv, ApartInv, Busy, Workers, NumWorkers
    <2>5. CoverInv'
      BY <1>1, <1>2 DEF CoverInv
    <2>6. PhaseInv'
      BY Zenon, <1>1, <1>2, <2>1, <2>2 DEF TransferInv, PhaseInv, Parallel, Workers, NumWorkers
    <2>7. DoneInv'
      BY Zenon, <2>1 DEF DoneInv
    <2> QED
      BY Zenon, <1>1, <2>3, <2>4, <2>5, <2>6, <2>7 DEF TransferInv
  <1> QED
    BY Zenon, <1>3, <1>4

\* All workers have left; without an error they left an empty queue, and the
\* producer had got to the end.
LEMMA DispatchKeeps ==
    ASSUME TransferInv, Dispatch
    PROVE  TransferInv'
  <1>1. UNCHANGED <<job, offset, errs, taskCh, worker, prod, dst, twice, abandoned, copier>>
    BY Zenon DEF Dispatch, poolVars
  <1>2. /\ main = "wait" /\ Parallel /\ job.total \in Nat /\ offset \in Nat /\ dst \subseteq Nat
        /\ \A w \in Workers : worker[w].pc = "exit"
    BY Zenon DEF TransferInv, PhaseInv, TypeInv, Job, Dispatch
  <1>3. errs = 0 => prod = "done" /\ taskCh = <<>>
    BY Zenon, <1>2, HaveWorkers DEF TransferInv, PhaseInv
  <1>4. errs = 0 /\ ~abandoned => dst = Bytes(0, job.total)
    <2> SUFFICES ASSUME errs = 0, ~abandoned PROVE dst = Bytes(0, job.total)
      BY Zenon
    <2>1. offset >= job.total
      BY Zenon, <1>3 DEF TransferInv, PhaseInv
    <2>2. ASSUME NEW b \in Nat, b < job.total PROVE b \in dst
      <3>1. ~Queued(b) /\ ~InWork(b)
        BY <1>2, <1>3 DEF Queued, InWork, Busy
      <3> QED
        BY <1>2, <2>1, <2>2, <3>1 DEF TransferInv, CoverInv
    <2>3. \A b \in dst : b < job.total
      BY ZenonT(30), <1>2 DEF TransferInv, CoverInv
    <2>4. \A b : b \in dst <=> b \in Nat /\ b < job.total
      BY ZenonT(30), <1>2, <2>2, <2>3
    <2> QED
      <3>1. \A b : b \in Bytes(0, job.total) <=> b \in Nat /\ 0 <= b /\ b < 0 + job.total
        BY Zenon, <1>2, BytesAre
      <3>2. \A b : b \in Bytes(0, job.total) <=> b \in Nat /\ b < job.total
        BY <1>2, <3>1
      <3> QED
        BY Zenon, <2>4, <3>2
  <1>5. PhaseInv'
    BY <1>1, <1>2, <1>3 DEF TransferInv, PhaseInv, Dispatch, Return, Parallel, Workers, NumWorkers
  <1>6. errs # 0 => result' = "failed" /\ main' = "done"
    BY DEF Dispatch, Return, TransferInv, TypeInv
  <1>7. DoneInv'
    BY Zenon, <1>1, <1>4, <1>6 DEF DoneInv
  <1> QED
    BY Zenon, <1>1, <1>5, <1>7, DataFrame DEF TransferInv

\* The next chunk begins where the queue ends.
LEMMA ProduceKeeps ==
    ASSUME TransferInv, Produce
    PROVE  TransferInv'
  <1> DEFINE size == MinOf(job.chunk, job.total - offset)
             t == [offset |-> offset, size |-> size]
  <1>1. UNCHANGED <<callVars, prod, worker, errs, cancelled, abandoned, dst, twice, copier>>
        /\ taskCh' = Append(taskCh, t) /\ offset' = offset + job.chunk
        /\ prod = "loop" /\ offset < job.total
    BY Zenon DEF Produce
  <1>2. /\ offset \in Nat /\ job.total \in Nat /\ job.chunk \in Nat /\ job.chunk > 0
        /\ taskCh \in Seq(Task) /\ dst \subseteq Nat /\ Parallel
    BY Zenon, <1>1 DEF TransferInv, TypeInv, PhaseInv, Job
  <1>3. size \in Nat /\ size > 0 /\ offset + size <= offset + job.chunk /\ offset + size <= job.total
        /\ (offset + size = offset + job.chunk \/ offset + size = job.total)
    <2>1. job.total - offset \in Nat /\ job.total - offset > 0
      BY <1>1, <1>2
    <2>2. size \in {job.chunk, job.total - offset} /\ size <= job.chunk /\ size <= job.total - offset
      BY Zenon, <1>2, <2>1, Least
    <2> HIDE DEF size
    <2> QED
      BY <1>2, <2>1, <2>2
  <1> HIDE DEF size
  <1>4. t \in Task /\ t.offset = offset /\ t.size = size /\ End(t) = offset + size
    BY Zenon, <1>2, <1>3 DEF Task, End
  <1> HIDE DEF t
  <1>5. /\ Len(taskCh') = Len(taskCh) + 1 /\ Len(taskCh) \in Nat
        /\ taskCh'[Len(taskCh) + 1] = t /\ \A i \in 1 .. Len(taskCh) : taskCh'[i] = taskCh[i]
        /\ taskCh' \in Seq(Task)
    BY <1>1, <1>2, <1>4
  <1>6. offset' \in Nat /\ offset <= offset' /\ job' = job /\ UNCHANGED <<main, held, result>>
    BY <1>1, <1>2 DEF callVars
  <1>7. \A i \in 1 .. Len(taskCh) : taskCh[i] \in Task /\ End(taskCh[i]) \in Nat
    BY Zenon, TaskTypes DEF TransferInv
  <1>8. TypeInv'
    BY Zenon, <1>1, <1>5, <1>6 DEF TransferInv, TypeInv, Workers, NumWorkers
  <1>9. QueueInv'
    <2>1. ASSUME NEW i \in 1 .. Len(taskCh')
          PROVE  /\ taskCh'[i].size > 0 /\ End(taskCh'[i]) <= offset' /\ End(taskCh'[i]) <= job.total
                 /\ \A b \in dst : b < taskCh'[i].offset \/ End(taskCh'[i]) <= b
      <3>1. CASE i \in 1 .. Len(taskCh)
        BY SMTT(30), <1>2, <1>5, <1>6, <1>7, <3>1 DEF TransferInv, QueueInv
      <3>2. CASE i = Len(taskCh) + 1
        <4>1. \A b \in dst : b < offset
          BY Zenon, <1>2 DEF TransferInv, CoverInv
        <4> QED
          BY Zenon, <1>1, <1>3, <1>4, <1>5, <3>2, <4>1
      <3> QED
        BY <1>5, <2>1, <3>1, <3>2
    <2>2. ASSUME NEW i \in 1 .. Len(taskCh'), NEW j \in 1 .. Len(taskCh'), i < j
          PROVE  End(taskCh'[i]) <= taskCh'[j].offset
      <3>1. i \in 1 .. Len(taskCh)
        BY <1>5, <2>2
      <3>2. CASE j \in 1 .. Len(taskCh)
        BY Zenon, <1>5, <2>2, <3>1, <3>2 DEF TransferInv, QueueInv
      <3>3. CASE j = Len(taskCh) + 1
        BY Zenon, <1>4, <1>5, <3>1, <3>3 DEF TransferInv, QueueInv
      <3> QED
        BY <1>5, <2>2, <3>2, <3>3
    <2> QED
      BY Zenon, <1>1, <1>6, <2>1, <2>2 DEF QueueInv, End
  <1>10. WorkInv'
    <2> SUFFICES ASSUME NEW w \in Workers, Busy(w)
                 PROVE  /\ worker[w].written < worker[w].task.size
                        /\ End(worker[w].task) <= offset' /\ End(worker[w].task) <= job.total
                        /\ \A b \in dst : b < From(w) \/ End(worker[w].task) <= b
                        /\ \A i \in 1 .. Len(taskCh') : End(worker[w].task) <= taskCh'[i].offset
      BY Zenon, <1>1, <1>6 DEF WorkInv, Workers, NumWorkers, Busy, From, End
    <2>1. /\ worker[w].written < worker[w].task.size
          /\ End(worker[w].task) <= offset /\ End(worker[w].task) <= job.total
          /\ \A b \in dst : b < From(w) \/ End(worker[w].task) <= b
          /\ \A i \in 1 .. Len(taskCh) : End(worker[w].task) <= taskCh[i].offset
      BY Zenon DEF TransferInv, WorkInv
    <2>2. End(worker[w].task) \in Nat
      BY DEF TransferInv, TypeInv, Task, End
    <2>3. ASSUME NEW i \in 1 .. Len(taskCh') PROVE End(worker[w].task) <= taskCh'[i].offset
      <3>1. CASE i \in 1 .. Len(taskCh)
        BY Zenon, <1>5, <2>1, <3>1
      <3>2. CASE i = Len(taskCh) + 1
        BY Zenon, <1>4, <1>5, <2>1, <3>2
      <3> QED
        BY <1>5, <3>1, <3>2
    <2> QED
      BY SMTT(30), <1>2, <1>6, <2>1, <2>2, <2>3
  <1>11. ApartInv'
    BY Zenon, <1>1, <1>6 DEF TransferInv, ApartInv, Workers, NumWorkers, Busy, End
  <1>12. CoverInv'
    <2>1. \A b \in dst : b < offset' /\ b < job.total
      BY <1>2, <1>6 DEF TransferInv, CoverInv
    <2>2. ASSUME errs = 0, NEW b \in Nat, b < offset', b < job.total
          PROVE  b \in dst \/ Queued(b)' \/ InWork(b)'
      <3>1. CASE b < offset
        <4>1. b \in dst \/ Queued(b) \/ InWork(b)
          BY Zenon, <2>2, <3>1 DEF TransferInv, CoverInv
        <4>2. Queued(b) => Queued(b)'
          BY <1>5 DEF Queued, End
        <4>3. InWork(b) => InWork(b)'
          BY Zenon, <1>1, <1>6 DEF InWork, Workers, NumWorkers, Busy, From, End
        <4> QED
          BY Zenon, <4>1, <4>2, <4>3
      <3>2. CASE offset <= b
        <4>1. b < End(t) /\ t.offset <= b
          BY Zenon, <1>1, <1>2, <1>3, <1>4, <2>2, <3>2
        <4> QED
          BY <1>5, <4>1 DEF Queued, End
      <3> QED
        BY <1>2, <3>1, <3>2
    <2> QED
      BY Zenon, <1>1, <1>6, <2>1, <2>2 DEF CoverInv, Parallel
  <1>13. PhaseInv'
    BY Zenon, <1>1, <1>6 DEF TransferInv, PhaseInv, Parallel, Workers, NumWorkers
  <1>14. DoneInv'
    BY Zenon, <1>1, <1>6 DEF TransferInv, DoneInv
  <1> QED
    BY Zenon, <1>1, <1>8, <1>9, <1>10, <1>11, <1>12, <1>13, <1>14 DEF TransferInv

LEMMA ProducerStopsKeeps ==
    ASSUME TransferInv, ProducerStops
    PROVE  TransferInv'
  <1>1. UNCHANGED <<job, main, held, result, offset, taskCh, worker, errs, cancelled, abandoned,
                    dst, twice, copier>>
        /\ prod = "loop" /\ prod' = "done" /\ (offset >= job.total \/ cancelled)
    BY Zenon DEF ProducerStops, callVars
  <1>2. PhaseInv'
    BY Zenon, <1>1 DEF TransferInv, PhaseInv, Parallel, Workers, NumWorkers
  <1>3. DoneInv'
    BY Zenon, <1>1 DEF TransferInv, DoneInv
  <1> QED
    BY Zenon, <1>1, <1>2, <1>3, DataFrame DEF TransferInv

---------------------------------------------------------------------------
(* The workers. *)

\* The first task of the queue becomes the worker's.
LEMMA ReceiveKeeps ==
    ASSUME TransferInv, NEW w \in Workers, Receive(w)
    PROVE  TransferInv'
  <1>1. /\ UNCHANGED <<callVars, offset, prod, errs, cancelled, abandoned, dst, twice, copier>>
        /\ worker[w].pc = "range" /\ taskCh # <<>> /\ taskCh' = Tail(taskCh)
        /\ worker' = [worker EXCEPT ![w] = [pc |-> "copy", task |-> Head(taskCh), written |-> 0]]
    BY Zenon DEF Receive
  <1>2. taskCh \in Seq(Task) /\ offset \in Nat /\ job.total \in Nat /\ dst \subseteq Nat
        /\ worker \in [Workers -> [pc : {"idle", "range", "copy", "exit"}, task : Task, written : Nat]]
    BY Zenon DEF TransferInv, TypeInv, Job
  <1>3. /\ Len(taskCh) \in Nat /\ Len(taskCh) > 0 /\ Len(taskCh') = Len(taskCh) - 1
        /\ Head(taskCh) = taskCh[1] /\ taskCh[1] \in Task /\ taskCh' \in Seq(Task)
        /\ \A i \in 1 .. Len(taskCh') : i + 1 \in 1 .. Len(taskCh) /\ taskCh'[i] = taskCh[i + 1]
    BY <1>1, <1>2
  <1>4. /\ worker'[w].pc = "copy" /\ worker'[w].task = taskCh[1] /\ worker'[w].written = 0
        /\ \A v \in Workers : v # w => worker'[v] = worker[v]
    BY Zenon, <1>1, <1>2, <1>3
  <1>5. job' = job /\ offset' = offset /\ dst' = dst /\ errs' = errs /\ UNCHANGED <<main, held, result>>
    BY Zenon, <1>1 DEF callVars
  <1>6. TypeInv'
    <2>1. [pc |-> "copy", task |-> taskCh[1], written |-> 0]
            \in [pc : {"idle", "range", "copy", "exit"}, task : Task, written : Nat]
      BY Zenon, <1>3
    <2>2. worker' \in [Workers -> [pc : {"idle", "range", "copy", "exit"}, task : Task, written : Nat]]
      BY Zenon, <1>1, <1>2, <1>3, <2>1
    <2> QED
      BY Zenon, <1>3, <1>5, <2>2 DEF TransferInv, TypeInv, Workers, NumWorkers
  <1>7. QueueInv'
    <2>1. ASSUME NEW i \in 1 .. Len(taskCh')
          PROVE  /\ taskCh'[i].size > 0 /\ End(taskCh'[i]) <= offset /\ End(taskCh'[i]) <= job.total
                 /\ \A b \in dst : b < taskCh'[i].offset \/ End(taskCh'[i]) <= b
      BY ZenonT(30), <1>3 DEF TransferInv, QueueInv
    <2>2. ASSUME NEW i \in 1 .. Len(taskCh'), NEW j \in 1 .. Len(taskCh'), i < j
          PROVE  End(taskCh'[i]) <= taskCh'[j].offset
      <3>1. i + 1 < j + 1
        BY <2>2
      <3> QED
        BY Zenon, <1>3, <3>1 DEF TransferInv, QueueInv
    <2> QED
      BY ZenonT(30), <1>5, <2>1, <2>2 DEF QueueInv, End
  <1>8. WorkInv'
    <2> SUFFICES ASSUME NEW v \in Workers, Busy(v)'
                 PROVE  /\ worker'[v].written < worker'[v].task.size
                        /\ End(worker'[v].task) <= offset /\ End(worker'[v].task) <= job.total
                        /\ \A b \in dst : b < From(v)' \/ End(worker'[v].task) <= b
                        /\ \A i \in 1 .. Len(taskCh') : End(worker'[v].task) <= taskCh'[i].offset
      BY Zenon, <1>5 DEF WorkInv, Workers, NumWorkers, End
    <2>1. CASE v = w
      <3>1. taskCh[1].size > 0 /\ End(taskCh[1]) <= offset /\ End(taskCh[1]) <= job.total
            /\ \A b \in dst : b < taskCh[1].offset \/ End(taskCh[1]) <= b
        BY <1>3 DEF TransferInv, QueueInv
      <3>2. \A i \in 1 .. Len(taskCh') : End(taskCh[1]) <= taskCh'[i].offset
        BY <1>3 DEF TransferInv, QueueInv
      <3>3. From(w)' = taskCh[1].offset
        BY SMTT(30), <1>3, <1>4 DEF From, Task
      <3> QED
        BY Zenon, <1>4, <2>1, <3>1, <3>2, <3>3
    <2>2. CASE v # w
      BY ZenonT(30), <1>3, <1>4, <2>2 DEF TransferInv, WorkInv, Busy, From
    <2> QED
      BY Zenon, <2>1, <2>2
  <1>9. ApartInv'
    <2> SUFFICES ASSUME NEW u \in Workers, NEW v \in Workers, Busy(u)', Busy(v)', u # v
                 PROVE  \/ End(worker'[u].task) <= worker'[v].task.offset
                        \/ End(worker'[v].task) <= worker'[u].task.offset
      BY Zenon, <1>5 DEF ApartInv, Workers, NumWorkers, End
    <2>1. ASSUME NEW x \in Workers, Busy(x)', x # w
          PROVE  worker'[x].task = worker[x].task /\ End(worker[x].task) <= taskCh[1].offset
      BY <1>3, <1>4, <2>1 DEF TransferInv, WorkInv, Busy
    <2>2. CASE u = w \/ v = w
      BY Zenon, <1>4, <2>1, <2>2
    <2>3. CASE u # w /\ v # w
      BY Zenon, <1>4, <2>3 DEF TransferInv, ApartInv, Busy
    <2> QED
      BY Zenon, <2>2, <2>3
  <1>10. CoverInv'
    <2>1. ASSUME errs = 0, NEW b \in Nat, b < offset, b < job.total
          PROVE  b \in dst \/ Queued(b)' \/ InWork(b)'
      <3>1. b \in dst \/ Queued(b) \/ InWork(b)
        BY Zenon, <2>1 DEF TransferInv, CoverInv
      <3>2. CASE Queued(b)
        <4>1. PICK i \in 1 .. Len(taskCh) : taskCh[i].offset <= b /\ b < End(taskCh[i])
          BY Zenon, <3>2 DEF Queued
        <4>2. CASE i = 1
          <5>1. Busy(w)' /\ worker'[w].task = taskCh[1] /\ From(w)' = taskCh[1].offset
            BY <1>3, <1>4 DEF Busy, From, Task
          <5>2. Workers' = Workers /\ End(worker'[w].task) = End(worker[w].task)'
            BY ZenonT(30), <1>5 DEF Workers, NumWorkers, End
          <5> QED
            BY ZenonT(30), <4>1, <4>2, <5>1, <5>2 DEF InWork
        <4>3. CASE i # 1
          <5>1. i - 1 \in 1 .. Len(taskCh') /\ taskCh'[i - 1] = taskCh[i]
            BY <1>3, <4>3
          <5> QED
            BY Zenon, <4>1, <5>1 DEF Queued, End
        <4> QED
          BY Zenon, <4>2, <4>3
      <3>3. CASE InWork(b)
        <4>1. PICK v \in Workers : Busy(v) /\ From(v) <= b /\ b < End(worker[v].task)
          BY Zenon, <3>3 DEF InWork
        <4>2. v # w /\ worker'[v] = worker[v]
          BY Zenon, <1>1, <1>4, <4>1 DEF Busy
        <4> QED
          BY Zenon, <1>5, <4>1, <4>2 DEF InWork, Busy, From, Workers, NumWorkers, End
      <3> QED
        BY Zenon, <3>1, <3>2, <3>3
    <2> QED
      BY Zenon, <1>5, <2>1 DEF TransferInv, CoverInv, Parallel
  <1>11. main = "wait" /\ prod # "idle"
    BY Zenon, <1>1 DEF TransferInv, PhaseInv
  <1>12. errs = 0 => \A v \in Workers : worker'[v].pc # "exit"
    BY ZenonT(30), <1>1, <1>4 DEF TransferInv, PhaseInv
  <1>13. PhaseInv'
    BY Zenon, <1>1, <1>5, <1>11, <1>12 DEF TransferInv, PhaseInv, Parallel, Workers, NumWorkers
  <1>14. DoneInv'
    BY Zenon, <1>1, <1>5 DEF TransferInv, DoneInv
  <1> QED
    BY Zenon, <1>1, <1>6, <1>7, <1>8, <1>9, <1>10, <1>13, <1>14 DEF TransferInv

LEMMA RangeEndsKeeps ==
    ASSUME TransferInv, NEW w \in Workers, RangeEnds(w)
    PROVE  TransferInv'
  <1>1. /\ UNCHANGED <<job, main, held, result, offset, prod, taskCh, errs, cancelled, abandoned,
                       dst, twice, copier>>
        /\ worker[w].pc = "range" /\ taskCh = <<>> /\ prod = "done"
        /\ worker' = [worker EXCEPT ![w].pc = "exit"]
    BY Zenon DEF RangeEnds, callVars
  <1>2. worker \in [Workers -> [pc : {"idle", "range", "copy", "exit"}, task : Task, written : Nat]]
    BY Zenon DEF TransferInv, TypeInv
  <1>3. /\ worker'[w].pc = "exit" /\ \A v \in Workers : v # w => worker'[v] = worker[v]
        /\ worker' \in [Workers -> [pc : {"idle", "range", "copy", "exit"}, task : Task, written : Nat]]
    BY Zenon, <1>1, <1>2
  <1>4. \A v \in Workers : /\ Busy(v)' <=> Busy(v)
                           /\ Busy(v) => worker'[v] = worker[v]
    BY Zenon, <1>1, <1>3 DEF Busy
  <1>5. TypeInv'
    BY Zenon, <1>1, <1>3 DEF TransferInv, TypeInv, Workers, NumWorkers
  <1>6. QueueInv'
    BY Zenon, <1>1 DEF TransferInv, QueueInv, End
  <1>7. WorkInv'
    BY Zenon, <1>1, <1>4 DEF TransferInv, WorkInv, Workers, NumWorkers, From, End
  <1>8. ApartInv'
    BY Zenon, <1>1, <1>4 DEF TransferInv, ApartInv, Workers, NumWorkers, End
  <1>9. CoverInv'
    <2>1. \A b \in Nat : (Queued(b) => Queued(b)') /\ (InWork(b) => InWork(b)')
      BY Zenon, <1>1, <1>4 DEF Queued, InWork, Workers, NumWorkers, From, End
    <2> QED
      BY Zenon, <1>1, <2>1 DEF TransferInv, CoverInv, Parallel
  <1>10. PhaseInv'
    BY Zenon, <1>1, <1>3 DEF TransferInv, PhaseInv, Parallel, Workers, NumWorkers
  <1>11. DoneInv'
    BY Zenon, <1>1 DEF TransferInv, DoneInv
  <1> QED
    BY Zenon, <1>1, <1>5, <1>6, <1>7, <1>8, <1>9, <1>10, <1>11 DEF TransferInv

\* A round writes n bytes of what the worker has left, or fails.
LEMMA RoundIs ==
    ASSUME TransferInv, BufLen \in Nat, NEW w \in Workers, CopyChunk(w)
    PROVE  \E n \in Nat, bad \in BOOLEAN :
             /\ From(w) + n <= End(worker[w].task)
             /\ dst' = dst \cup Bytes(From(w), n)
             /\ twice' = twice \cup (dst \cap Bytes(From(w), n))
             /\ cancelled' = (cancelled \/ bad)
             /\ errs' = IF bad THEN MinOf(errs + 1, NumWorkers) ELSE errs
             /\ worker' = [worker EXCEPT ![w] =
                  IF bad THEN [pc |-> "exit", task |-> NoTask, written |-> 0]
                  ELSE IF From(w) + n < End(worker[w].task)
                    THEN [worker[w] EXCEPT !.written = worker[w].written + n]
                  ELSE [pc |-> "range", task |-> NoTask, written |-> 0]]
  <1> DEFINE me == worker[w]
             readLen == MinOf(BufLen, me.task.size - me.written)
  <1>1. /\ me.task.offset \in Nat /\ me.task.size \in Nat /\ me.written \in Nat
        /\ me.written < me.task.size
    BY Zenon DEF CopyChunk, TransferInv, TypeInv, WorkInv, Busy, Task
  <1>2. readLen \in Nat /\ me.written + readLen <= me.task.size
    BY <1>1 DEF MinOf
  <1>3. PICK io \in ChunkIO(readLen) :
          LET sofar == IF io.werr THEN me.written ELSE me.written + io.n
              new == Bytes(me.task.offset + me.written, sofar - me.written)
              bad == io.werr \/ (io.rerr /\ sofar < me.task.size)
          IN  /\ dst' = dst \cup new
              /\ twice' = twice \cup (dst \cap new)
              /\ cancelled' = (cancelled \/ bad)
              /\ errs' = IF bad THEN MinOf(errs + 1, NumWorkers) ELSE errs
              /\ worker' = [worker EXCEPT ![w] =
                   IF bad THEN [pc |-> "exit", task |-> NoTask, written |-> 0]
                   ELSE IF sofar < me.task.size THEN [@ EXCEPT !.written = sofar]
                   ELSE [pc |-> "range", task |-> NoTask, written |-> 0]]
    BY ZenonT(30) DEF CopyChunk
  <1> HIDE DEF readLen
  <1>4. io.n \in 0 .. readLen /\ io.werr \in BOOLEAN /\ io.rerr \in BOOLEAN
    BY Zenon DEF ChunkIO
  <1> DEFINE n == IF io.werr THEN 0 ELSE io.n
             sofar == IF io.werr THEN me.written ELSE me.written + io.n
             bad == io.werr \/ (io.rerr /\ sofar < me.task.size)
  <1>5. n \in Nat /\ sofar = me.written + n /\ sofar - me.written = n /\ sofar <= me.task.size
    BY SMTT(30), <1>1, <1>2, <1>4
  <1>6. bad \in BOOLEAN
    BY ZenonT(30), <1>4
  <1>7. /\ From(w) = me.task.offset + me.written /\ End(worker[w].task) = me.task.offset + me.task.size
        /\ From(w) + n <= End(worker[w].task)
        /\ From(w) + n < End(worker[w].task) <=> sofar < me.task.size
    BY SMTT(30), <1>1, <1>5 DEF From, End
  <1>8. /\ dst' = dst \cup Bytes(From(w), n) /\ twice' = twice \cup (dst \cap Bytes(From(w), n))
        /\ cancelled' = (cancelled \/ bad)
        /\ errs' = IF bad THEN MinOf(errs + 1, NumWorkers) ELSE errs
    BY Zenon, <1>3, <1>5, <1>7
  <1>9. worker' = [worker EXCEPT ![w] =
                  IF bad THEN [pc |-> "exit", task |-> NoTask, written |-> 0]
                  ELSE IF From(w) + n < End(worker[w].task)
                    THEN [worker[w] EXCEPT !.written = worker[w].written + n]
                  ELSE [pc |-> "range", task |-> NoTask, written |-> 0]]
    BY ZenonT(30), <1>3, <1>5, <1>7
  <1> HIDE DEF n, bad, sofar
  <1> QED
    BY ZenonT(30), <1>5, <1>6, <1>7, <1>8, <1>9

LEMMA CopyKeeps ==
    ASSUME TransferInv, BufLen \in Nat, NEW w \in Workers, CopyChunk(w)
    PROVE  TransferInv'
  <1>1. PICK n \in Nat, bad \in BOOLEAN :
             /\ From(w) + n <= End(worker[w].task)
             /\ dst' = dst \cup Bytes(From(w), n)
             /\ twice' = twice \cup (dst \cap Bytes(From(w), n))
             /\ cancelled' = (cancelled \/ bad)
             /\ errs' = IF bad THEN MinOf(errs + 1, NumWorkers) ELSE errs
             /\ worker' = [worker EXCEPT ![w] =
                  IF bad THEN [pc |-> "exit", task |-> NoTask, written |-> 0]
                  ELSE IF From(w) + n < End(worker[w].task)
                    THEN [worker[w] EXCEPT !.written = worker[w].written + n]
                  ELSE [pc |-> "range", task |-> NoTask, written |-> 0]]
    BY Zenon, RoundIs
  <1>2. UNCHANGED <<job, main, held, result, offset, prod, taskCh, abandoned, copier>> /\ Busy(w)
    BY Zenon DEF CopyChunk, callVars, Busy
  <1>3. /\ worker \in [Workers -> [pc : {"idle", "range", "copy", "exit"}, task : Task, written : Nat]]
        /\ taskCh \in Seq(Task) /\ offset \in Nat /\ job.total \in Nat /\ dst \subseteq Nat /\ errs \in Nat
    BY Zenon DEF TransferInv, TypeInv, Job
  <1>4. \A v \in Workers : /\ worker[v].task \in Task /\ worker[v].task.offset \in Nat
                           /\ From(v) \in Nat /\ End(worker[v].task) \in Nat
                           /\ worker[v].task.offset <= From(v)
    BY SMTT(30), <1>3 DEF From, End, Task
  <1>5. \A b : b \in dst' <=> b \in dst \/ (b \in Nat /\ From(w) <= b /\ b < From(w) + n)
    <2>1. \A b : b \in Bytes(From(w), n) <=> b \in Nat /\ From(w) <= b /\ b < From(w) + n
      BY ZenonT(30), <1>4, BytesAre
    <2> QED
      BY ZenonT(30), <1>1, <2>1
  <1>6. /\ End(worker[w].task) <= offset /\ End(worker[w].task) <= job.total
        /\ \A b \in dst : b < From(w) \/ End(worker[w].task) <= b
        /\ \A i \in 1 .. Len(taskCh) : End(worker[w].task) <= taskCh[i].offset
    BY Zenon, <1>2 DEF TransferInv, WorkInv
  <1>7. twice' = {}
    <2>1. \A b \in dst : b \notin Bytes(From(w), n)
      <3>1. \A b : b \in Bytes(From(w), n) => b \in Nat /\ From(w) <= b /\ b < From(w) + n
        BY Zenon, <1>4, BytesAre
      <3>2. SUFFICES ASSUME NEW b \in dst, b \in Bytes(From(w), n) PROVE FALSE
        BY Zenon
      <3>3. b \in Nat /\ From(w) <= b /\ b < From(w) + n
        BY ZenonT(30), <3>1, <3>2
      <3>4. b < From(w) \/ End(worker[w].task) <= b
        BY ZenonT(30), <1>6
      <3>5. From(w) + n <= End(worker[w].task) /\ n \in Nat
        BY Zenon, <1>1
      <3> QED
        BY SMTT(30), <1>4, <3>3, <3>4, <3>5
    <2> QED
      BY Zenon, <1>1, <2>1 DEF TransferInv
  <1>8. /\ \A v \in Workers : v # w => worker'[v] = worker[v]
        /\ Busy(w)' => /\ ~bad /\ From(w) + n < End(worker[w].task)
                       /\ worker'[w].task = worker[w].task
                       /\ worker'[w].written = worker[w].written + n
        /\ ~bad /\ From(w) + n < End(worker[w].task) => Busy(w)'
        /\ worker'[w].pc \in {"exit", "range", "copy"}
        /\ worker'[w].pc = "exit" => bad
    BY Zenon, <1>1, <1>2, <1>3 DEF Busy
  <1>9. Busy(w)' => From(w)' = From(w) + n /\ End(worker[w].task)' = End(worker[w].task)
    BY SMTT(30), <1>3, <1>4, <1>8 DEF From, End, Task
  <1>10. errs' \in Nat /\ (bad => errs' > 0) /\ (~bad => errs' = errs)
    BY SMTT(30), <1>1, <1>3, HaveWorkers DEF MinOf, TransferInv
  <1>11. TypeInv'
    <2>1. worker'[w] \in [pc : {"idle", "range", "copy", "exit"}, task : Task, written : Nat]
      <3>1. NoTask \in Task
        BY Zenon DEF NoTask, Task
      <3>2. worker[w] \in [pc : {"idle", "range", "copy", "exit"}, task : Task, written : Nat]
            /\ worker[w].written + n \in Nat
        BY <1>3
      <3>3. \/ worker'[w] = [pc |-> "exit", task |-> NoTask, written |-> 0]
            \/ worker'[w] = [worker[w] EXCEPT !.written = worker[w].written + n]
            \/ worker'[w] = [pc |-> "range", task |-> NoTask, written |-> 0]
        BY Zenon, <1>1, <1>3
      <3>4. CASE worker'[w] = [worker[w] EXCEPT !.written = worker[w].written + n]
        BY Zenon, <3>2, <3>4
      <3> QED
        BY <3>1, <3>3, <3>4
    <2>2. worker' \in [Workers -> [pc : {"idle", "range", "copy", "exit"}, task : Task, written : Nat]]
      BY Zenon, <1>1, <1>3, <2>1
    <2>3. dst' \subseteq Nat
      BY ZenonT(30), <1>3, <1>5
    <2> QED
      BY Zenon, <1>2, <1>10, <2>2, <2>3 DEF TransferInv, TypeInv, Workers, NumWorkers
  <1>12. QueueInv'
    <2>1. ASSUME NEW i \in 1 .. Len(taskCh), NEW b \in dst'
          PROVE  b < taskCh[i].offset \/ End(taskCh[i]) <= b
      <3>1. CASE b \in dst
        BY Zenon, <3>1 DEF TransferInv, QueueInv
      <3>2. CASE b \notin dst
        <4>1. taskCh[i].offset \in Nat
          BY Zenon, TaskTypes DEF TransferInv
        <4> QED
          BY SMTT(30), <1>1, <1>4, <1>5, <1>6, <2>1, <3>2, <4>1
      <3> QED
        BY Zenon, <3>1, <3>2
    <2> QED
      BY Zenon, <1>2, <2>1 DEF TransferInv, QueueInv, End
  <1>13. ASSUME NEW v \in Workers, v # w, Busy(v), NEW b \in dst'
         PROVE  b < From(v) \/ End(worker[v].task) <= b
    <2>1. CASE b \in dst
      BY Zenon, <1>13, <2>1 DEF TransferInv, WorkInv
    <2>2. CASE b \notin dst
      <3>1. \/ End(worker[w].task) <= worker[v].task.offset
            \/ End(worker[v].task) <= worker[w].task.offset
        BY Zenon, <1>2, <1>13 DEF TransferInv, ApartInv
      <3>2. b \in Nat /\ From(w) <= b /\ b < From(w) + n
        BY ZenonT(30), <1>5, <1>13, <2>2
      <3> QED
        BY SMTT(30), <1>1, <1>4, <3>1, <3>2
    <2> QED
      BY Zenon, <2>1, <2>2
  <1>14. WorkInv'
    <2> SUFFICES ASSUME NEW v \in Workers, Busy(v)'
                 PROVE  /\ worker'[v].written < worker'[v].task.size
                        /\ End(worker[v].task)' <= offset /\ End(worker[v].task)' <= job.total
                        /\ \A b \in dst' : b < From(v)' \/ End(worker[v].task)' <= b
                        /\ \A i \in 1 .. Len(taskCh) : End(worker[v].task)' <= taskCh[i].offset
      BY ZenonT(30), <1>2 DEF WorkInv, Workers, NumWorkers, End
    <2>1. CASE v = w
      <3>1. worker'[w].written < worker'[w].task.size
        BY <1>3, <1>4, <1>8, <2>1 DEF From, End, Task
      <3>2. \A b \in dst' : b < From(w) + n \/ End(worker[w].task) <= b
        BY SMTT(30), <1>1, <1>3, <1>4, <1>5, <1>6
      <3> QED
        BY ZenonT(30), <1>6, <1>9, <2>1, <3>1, <3>2
    <2>2. CASE v # w
      <3>1. worker'[v] = worker[v] /\ Busy(v) /\ From(v)' = From(v)
        BY ZenonT(30), <1>8, <2>2 DEF Busy, From
      <3>2. End(worker[v].task)' = End(worker[v].task)
        BY ZenonT(30), <3>1 DEF End
      <3>3. /\ worker[v].written < worker[v].task.size
            /\ End(worker[v].task) <= offset /\ End(worker[v].task) <= job.total
            /\ \A i \in 1 .. Len(taskCh) : End(worker[v].task) <= taskCh[i].offset
        BY ZenonT(30), <3>1 DEF TransferInv, WorkInv
      <3> QED
        BY ZenonT(30), <1>13, <2>2, <3>1, <3>2, <3>3
    <2> QED
      BY Zenon, <2>1, <2>2
  <1>15. ApartInv'
    <2>1. \A v \in Workers : Busy(v)' => Busy(v) /\ worker'[v].task = worker[v].task
      BY Zenon, <1>2, <1>8 DEF Busy
    <2> QED
      BY ZenonT(30), <1>2, <2>1 DEF TransferInv, ApartInv, Workers, NumWorkers, End
  <1>16. CoverInv'
    <2>1. Parallel => \A b \in dst' : b < offset /\ b < job.total
      BY SMTT(30), <1>1, <1>3, <1>4, <1>5, <1>6 DEF TransferInv, CoverInv
    <2>2. ASSUME errs' = 0, NEW b \in Nat, b < offset, b < job.total
          PROVE  b \in dst' \/ Queued(b)' \/ InWork(b)'
      <3>1. ~bad /\ errs = 0
        BY <1>10, <2>2
      <3>2. b \in dst \/ Queued(b) \/ InWork(b)
        BY Zenon, <2>2, <3>1 DEF TransferInv, CoverInv
      <3>3. Queued(b) => Queued(b)'
        BY Zenon, <1>2 DEF Queued, End
      <3>4. CASE InWork(b)
        <4>1. PICK v \in Workers : Busy(v) /\ From(v) <= b /\ b < End(worker[v].task)
          BY ZenonT(30), <3>4 DEF InWork
        <4>2. CASE v # w
          BY ZenonT(30), <1>2, <1>8, <4>1, <4>2 DEF InWork, Busy, From, Workers, NumWorkers, End
        <4>3. CASE v = w /\ b < From(w) + n
          BY Zenon, <1>5, <4>1, <4>3
        <4>4. CASE v = w /\ From(w) + n <= b
          <5>1. Busy(w)' /\ From(w)' <= b /\ b < End(worker[w].task)'
            BY SMTT(30), <1>4, <1>8, <1>9, <3>1, <4>1, <4>4
          <5> QED
            BY ZenonT(30), <1>2, <5>1 DEF InWork, Workers, NumWorkers
        <4> QED
          BY <1>4, <4>2, <4>3, <4>4
      <3> QED
        BY Zenon, <1>5, <3>2, <3>3, <3>4
    <2> QED
      BY Zenon, <1>2, <2>1, <2>2 DEF CoverInv, Parallel
  <1>17. main = "wait" /\ prod # "idle"
    BY Zenon, <1>2 DEF TransferInv, PhaseInv, Busy
  <1>18. errs' = 0 => ~bad /\ errs = 0
    BY <1>10
  <1>19. errs' = 0 /\ ~cancelled => ~cancelled'
    BY ZenonT(30), <1>1, <1>18
  <1>20. errs' = 0 => \A v \in Workers : worker'[v].pc = "exit" => worker[v].pc = "exit"
    BY ZenonT(30), <1>8, <1>18
  <1>21. PhaseInv'
    BY Zenon, <1>2, <1>17, <1>18, <1>19, <1>20 DEF TransferInv, PhaseInv, Parallel, Workers, NumWorkers
  <1>22. DoneInv'
    BY Zenon, <1>2, <1>17 DEF DoneInv
  <1> QED
    BY Zenon, <1>7, <1>11, <1>12, <1>14, <1>15, <1>16, <1>21, <1>22 DEF TransferInv

---------------------------------------------------------------------------
LEMMA Invariance == TransferSpec => []TransferInv
  <1>1. TransferInit => TransferInv
    <2> SUFFICES ASSUME TransferInit PROVE TransferInv
      BY Zenon
    <2>1. job \in Job
      BY Zenon, InputsAssumption DEF TransferInit, Job
    <2>2. \A w \in Workers : worker[w] = [pc |-> "idle", task |-> NoTask, written |-> 0]
      BY Zenon DEF TransferInit
    <2>3. [pc |-> "idle", task |-> NoTask, written |-> 0]
            \in [pc : {"idle", "range", "copy", "exit"}, task : Task, written : Nat]
      BY Zenon DEF NoTask, Task
    <2>4. TypeInv
      BY SMTT(30), <2>1, <2>3 DEF TransferInit, TypeInv
    <2>5. QueueInv /\ WorkInv /\ ApartInv
      BY <2>2 DEF TransferInit, QueueInv, WorkInv, ApartInv, Busy
    <2>6. CoverInv /\ DoneInv
      BY DEF TransferInit, CoverInv, DoneInv
    <2>7. PhaseInv
      BY <2>2 DEF TransferInit, PhaseInv
    <2> QED
      BY Zenon, <2>4, <2>5, <2>6, <2>7 DEF TransferInit, TransferInv
  <1>2. TransferInv /\ [TransferNext]_transferVars => TransferInv'
    <2> SUFFICES ASSUME TransferInv, [TransferNext]_transferVars PROVE TransferInv'
      BY Zenon
    <2>1. BufLen \in Nat
      BY Zenon, InputsAssumption
    <2>2. CASE MainNext \/ CopierStep \/ Abandon
      BY Zenon, <2>2, OpenKeeps, SequentialKeeps, StartKeeps, DispatchKeeps DEF MainNext
    <2>3. CASE ProducerNext
      BY Zenon, <2>3, ProduceKeeps, ProducerStopsKeeps DEF ProducerNext
    <2>4. CASE WorkerNext
      BY Zenon, <2>1, <2>4, ReceiveKeeps, RangeEndsKeeps, CopyKeeps DEF WorkerNext, WorkerStep
    <2>5. CASE UNCHANGED transferVars
      <3>1. UNCHANGED <<job, offset, errs, taskCh, worker, dst, prod, twice, main, held, result,
                        cancelled, abandoned, copier>>
        BY ZenonT(30), <2>5 DEF transferVars, callVars, poolVars
      <3>2. PhaseInv' /\ DoneInv'
        BY Zenon, <3>1 DEF TransferInv, PhaseInv, DoneInv, Parallel, Workers, NumWorkers
      <3> QED
        BY Zenon, <3>1, <3>2, DataFrame DEF TransferInv
    <2> QED
      BY Zenon, <2>2, <2>3, <2>4, <2>5 DEF TransferNext
  <1> QED
    BY <1>1, <1>2, PTL DEF TransferSpec

\* A transfer that returns nil has written every byte of the file once, unless
\* the caller cancelled: Upload, Download and, whatever the chunk size and the
\* number of workers, UploadParallel and DownloadParallel.
THEOREM Complete == TransferSpec => []CompleteOrCancelled
  <1>1. TransferInv => CompleteOrCancelled
    BY Zenon DEF TransferInv, DoneInv, CompleteOrCancelled
  <1> QED
    BY <1>1, Invariance, PTL

---------------------------------------------------------------------------
(* The files.  Only Return closes them, and it leaves no call in wg.Wait. *)

HeldInv == main = "wait" => held = 4

LEMMA HeldStep == HeldInv /\ [TransferNext]_transferVars => HeldInv'
  <1> SUFFICES ASSUME HeldInv, [TransferNext]_transferVars PROVE HeldInv'
    BY Zenon
  <1>1. CASE UNCHANGED <<main, held>>
    BY ZenonT(30), <1>1 DEF HeldInv
  <1>2. CASE main' # "wait"
    BY ZenonT(30), <1>2 DEF HeldInv
  <1>3. CASE UploadParallel \/ DownloadParallel
    <2>1. Len(Handles(job.kind)) = 4 /\ held = Len(Handles(job.kind))
      BY Zenon, <1>3 DEF UploadParallel, DownloadParallel, Handles
    <2>2. main' # "wait" \/ held' = held
      BY ZenonT(30), <1>3 DEF UploadParallel, DownloadParallel, Return
    <2> QED
      BY Zenon, <2>1, <2>2 DEF HeldInv
  <1>4. CASE MainNext /\ ~(UploadParallel \/ DownloadParallel)
    <2>1. main' # "wait"
      BY ZenonT(30), <1>4 DEF MainNext, InvalidChunkSize, Open, Dispatch, Sync, Sequential, WriteFile,
                              WriteFileReturns, Return
    <2> QED
      BY Zenon, <1>2, <2>1
  <1>5. CASE ProducerNext \/ WorkerNext \/ CopierStep \/ Abandon \/ UNCHANGED transferVars
    <2>1. UNCHANGED callVars
      BY ZenonT(30), <1>5 DEF ProducerNext, Produce, ProducerStops, WorkerNext, WorkerStep, Receive, RangeEnds,
                              CopyChunk, CopierStep, Abandon, transferVars
    <2> QED
      BY ZenonT(30), <1>1, <2>1 DEF callVars
  <1> QED
    BY Zenon, <1>3, <1>4, <1>5 DEF TransferNext

\* The workers write only into files that are open, and a transfer that returns
\* nil has written every byte once: no WriteAt of uploadChunk or downloadChunk meets the deferred
\* Close calls of UploadParallel and DownloadParallel.
THEOREM FilesComplete == TransferSpec => []DataComplete
  <1>1. TransferInit => HeldInv
    BY Zenon DEF TransferInit, HeldInv
  <1>2. TransferSpec => []HeldInv
    BY <1>1, HeldStep, PTL DEF TransferSpec
  <1>3. TransferInv /\ HeldInv => FilesOutliveWorkers
    BY DEF TransferInv, PhaseInv, HeldInv, FilesOutliveWorkers
  <1> QED
    BY <1>2, <1>3, Invariance, Complete, PTL DEF DataComplete

---------------------------------------------------------------------------
---------------------------------------------------------------------------
(* Socket.IO traffic. *)

TrafficSpec == TrafficInit /\ [][TrafficNext]_trafficVars

AckPackets == [t : {"ack"}, id : Emitters]
HeaderPackets == [t : {"header"}, ev : Events]
AttPackets == [t : {"att"}, ev : Events, num : Nat \ {0}]
ServerPackets == AckPackets \cup HeaderPackets \cup AttPackets

\* An attachment follows the one before it, or its header; a header is only ever
\* first, because the server writes an event when nothing else is under way.
Follows(p, r) ==
    /\ r.t # "header"
    /\ r.t = "att" => /\ p.t # "ack" /\ p.ev = r.ev
                      /\ r.num = IF p.t = "header" THEN 1 ELSE p.num + 1

EmitQueueInv ==
    /\ toClient \in Seq(ServerPackets)
    /\ \A i \in DOMAIN toClient : i + 1 \in DOMAIN toClient => Follows(toClient[i], toClient[i + 1])

\* What reassembly has when attachment n of an event comes: the n - 1 before it.
FirstAtts(ev, k) == [i \in 1..k |-> [ev |-> ev, num |-> i]]
Collecting(b, ev, n) == b = [ev |-> ev, need |-> Len(Sizes[ev]), got |-> FirstAtts(ev, n - 1)]
BufInv ==
    toClient # <<>> /\ toClient[1].t = "att" /\ binaryBuf # NoEvent
      => Collecting(binaryBuf, toClient[1].ev, toClient[1].num)

ReadInv == EmitQueueInv /\ BufInv /\ EventIntact

\* An emitter that has registered its job has it still, or it expired, or its
\* result is in the channel.
EmitSteps == {"idle", "ErrNotConnected", "register", "write", "first", "second", "wait",
              "writeError", "result", "gaveUp"}
EmitInv ==
    /\ epc \in [Emitters -> EmitSteps]
    /\ \A e \in Emitters : epc[e] \in {"write", "first", "second", "wait"} => e \in acks \cup expired \cup chan
    /\ arrived \subseteq Emitters
    /\ AckReachesCaller

LEMMA TrafficStarts == TrafficInit => ReadInv /\ EmitInv
  BY DEF TrafficInit, ReadInv, EmitQueueInv, BufInv, EventIntact, EmitInv, AckReachesCaller, EmitSteps

\* Steps that touch neither the queue nor reassembly.
LEMMA ReadKept == ReadInv /\ UNCHANGED <<toClient, binaryBuf, dispatched>> => ReadInv'
  BY ZenonT(30) DEF ReadInv, EmitQueueInv, BufInv, EventIntact

LEMMA QueueDropped ==
    ASSUME ReadInv, Drop PROVE ReadInv'
  BY DEF ReadInv, EmitQueueInv, BufInv, EventIntact, Drop, arrivalVars

LEMMA QueueAcked ==
    ASSUME ReadInv, NEW e \in Emitters, ServerAcks(e) PROVE ReadInv'
<1> DEFINE a == [t |-> "ack", id |-> e]
<1>1. a \in ServerPackets /\ toClient' = Append(toClient, a) /\ UNCHANGED <<binaryBuf, dispatched>>
  BY Zenon DEF ServerAcks, arrivalVars, ServerPackets, AckPackets
<1>2. toClient \in Seq(ServerPackets)
  BY Zenon DEF ReadInv, EmitQueueInv
<1>3. toClient' \in Seq(ServerPackets)
  BY <1>1, <1>2
<1>4. ASSUME NEW i \in DOMAIN toClient', i + 1 \in DOMAIN toClient'
      PROVE  Follows(toClient'[i], toClient'[i + 1])
  <2>1. CASE i + 1 \in DOMAIN toClient
    BY <1>1, <1>2, <1>4, <2>1 DEF ReadInv, EmitQueueInv
  <2>2. CASE i + 1 \notin DOMAIN toClient
    <3>1. toClient'[i + 1] = a
      BY <1>1, <1>2, <1>4, <2>2
    <3> QED BY <3>1 DEF Follows
  <2> QED BY Zenon, <2>1, <2>2
<1>5. BufInv'
  BY <1>1, <1>2 DEF ReadInv, BufInv
<1> QED BY Zenon, <1>1, <1>3, <1>4, <1>5 DEF ReadInv, EmitQueueInv, EventIntact

LEMMA QueueSent ==
    ASSUME ReadInv, NEW ev \in Events, ServerSends(ev) PROVE ReadInv'
<1> DEFINE h == [t |-> "header", ev |-> ev]
           n == Len(Sizes[ev])
           atts == [i \in 1..n |-> [t |-> "att", ev |-> ev, num |-> i]]
<1>1. toClient' = Append(<<>>, h) \o atts /\ UNCHANGED <<binaryBuf, dispatched>>
  BY Zenon DEF ServerSends, arrivalVars
<1>2. n \in Nat
  BY TrafficAssumption
<1>3. h \in ServerPackets /\ atts \in Seq(ServerPackets) /\ Len(atts) = n
  BY <1>2 DEF ServerPackets, HeaderPackets, AttPackets
<1> HIDE DEF h, n, atts
<1>4. /\ toClient' \in Seq(ServerPackets) /\ Len(toClient') = n + 1
      /\ toClient'[1] = h /\ \A i \in 1..n : toClient'[i + 1] = atts[i]
  BY <1>1, <1>2, <1>3
<1>5. ASSUME NEW i \in DOMAIN toClient', i + 1 \in DOMAIN toClient'
      PROVE  Follows(toClient'[i], toClient'[i + 1])
  <2>1. i \in 1..n /\ toClient'[i + 1] = [t |-> "att", ev |-> ev, num |-> i]
    BY <1>2, <1>4, <1>5 DEF atts
  <2>2. CASE i = 1
    BY <2>1, <2>2, <1>4 DEF Follows, h
  <2>3. CASE i # 1
    <3>1. i - 1 \in 1..n /\ (i - 1) + 1 = i
      BY <2>1, <2>3, <1>2
    <3>2. toClient'[i] = [t |-> "att", ev |-> ev, num |-> i - 1]
      BY <3>1, <1>4, Zenon DEF atts
    <3> QED BY <2>1, <3>2 DEF Follows
  <2> QED BY ZenonT(30), <2>2, <2>3
<1>6. BufInv'
  BY <1>4 DEF BufInv, h
<1> QED BY Zenon, <1>1, <1>4, <1>5, <1>6 DEF ReadInv, EmitQueueInv, EventIntact

\* One packet less: what is left still follows.
LEMMA QueueTail ==
    ASSUME EmitQueueInv, toClient # <<>>, toClient' = Tail(toClient)
    PROVE  /\ Head(toClient) = toClient[1] /\ toClient[1] \in ServerPackets
           /\ EmitQueueInv'
           /\ toClient' # <<>> => Follows(toClient[1], toClient'[1])
<1>1. toClient \in Seq(ServerPackets) /\ Len(toClient) \in Nat \ {0}
  BY DEF EmitQueueInv
<1>2. /\ toClient' \in Seq(ServerPackets) /\ Len(toClient') = Len(toClient) - 1
      /\ \A i \in 1..Len(toClient') : toClient'[i] = toClient[i + 1] /\ i + 1 \in DOMAIN toClient
  BY <1>1
<1>3. ASSUME NEW i \in DOMAIN toClient', i + 1 \in DOMAIN toClient'
      PROVE  Follows(toClient'[i], toClient'[i + 1])
  <2>1. /\ i \in 1..Len(toClient') /\ i + 1 \in 1..Len(toClient')
        /\ i + 1 \in DOMAIN toClient /\ (i + 1) + 1 \in DOMAIN toClient
    BY <1>1, <1>2, <1>3
  <2> QED BY <1>2, <2>1, Zenon DEF EmitQueueInv
<1>4. ASSUME toClient' # <<>> PROVE Follows(toClient[1], toClient'[1])
  <2>1. 1 \in 1..Len(toClient') /\ 1 \in DOMAIN toClient /\ 1 + 1 \in DOMAIN toClient
    BY <1>1, <1>2, <1>4
  <2> QED BY <1>2, <2>1, Zenon DEF EmitQueueInv
<1>5. Head(toClient) = toClient[1] /\ toClient[1] \in ServerPackets
  BY <1>1
<1> QED BY Zenon, <1>2, <1>3, <1>4, <1>5 DEF EmitQueueInv

LEMMA HeaderRead ==
    ASSUME ReadInv, HandlePacket, toClient[1].t = "header" PROVE ReadInv'
<1>1. toClient # <<>> /\ toClient' = Tail(toClient) /\ EmitQueueInv
  BY Zenon DEF HandlePacket, ReadInv
<1>2. Head(toClient) = toClient[1] /\ toClient[1] \in ServerPackets /\ EmitQueueInv'
  BY Zenon, <1>1, QueueTail
<1>3. toClient' # <<>> => Follows(toClient[1], toClient'[1])
  BY Zenon, <1>1, QueueTail
<1> DEFINE ev == toClient[1].ev
<1>4. /\ binaryBuf' = [ev |-> ev, need |-> Len(Sizes[ev]), got |-> <<>>] /\ dispatched' = dispatched
  BY ZenonT(30), <1>2 DEF HandlePacket, NewBinaryReconstructor
<1>5. BufInv'
  <2>1. SUFFICES ASSUME toClient' # <<>>, toClient'[1].t = "att"
                 PROVE  Collecting(binaryBuf', toClient'[1].ev, toClient'[1].num)
    BY Zenon DEF BufInv
  <2>2. toClient'[1].ev = ev /\ toClient'[1].num = 1
    BY Zenon, <1>3, <2>1 DEF Follows
  <2>3. FirstAtts(ev, 1 - 1) = <<>>
    BY DEF FirstAtts
  <2> QED BY Zenon, <1>4, <2>2, <2>3 DEF Collecting
<1> QED BY Zenon, <1>2, <1>4, <1>5 DEF ReadInv, EventIntact

\* The attachments so far and one more.
LEMMA OneMore ==
    ASSUME NEW ev, NEW k \in Nat
    PROVE  /\ Append(FirstAtts(ev, k), [ev |-> ev, num |-> k + 1]) = FirstAtts(ev, k + 1)
           /\ Len(FirstAtts(ev, k)) = k
<1> DEFINE A == [ev : {ev}, num : Nat]
<1>1. FirstAtts(ev, k) \in Seq(A) /\ Len(FirstAtts(ev, k)) = k
  BY DEF FirstAtts
<1>2. FirstAtts(ev, k + 1) \in Seq(A) /\ Len(FirstAtts(ev, k + 1)) = k + 1
  BY DEF FirstAtts
<1> DEFINE s == Append(FirstAtts(ev, k), [ev |-> ev, num |-> k + 1])
<1>3. s \in Seq(A) /\ Len(s) = k + 1
  BY <1>1
<1>4. \A i \in 1..(k + 1) : s[i] = FirstAtts(ev, k + 1)[i]
  BY <1>1 DEF FirstAtts
<1> HIDE DEF s, A
<1>5. s = FirstAtts(ev, k + 1)
  BY <1>2, <1>3, <1>4
<1> QED BY Zenon, <1>1, <1>5 DEF s

LEMMA BufGrows ==
    ASSUME NEW ev, NEW need, NEW atts, NEW p,
           binaryBuf = [ev |-> ev, need |-> need, got |-> atts]
    PROVE  AddBuffer(p) = [ev |-> ev, need |-> need, got |-> Append(atts, p)]
  BY DEF AddBuffer

LEMMA Collects ==
    ASSUME NEW ev, NEW n \in Nat \ {0}, Collecting(binaryBuf, ev, n)
    PROVE  /\ AddBuffer([ev |-> ev, num |-> n])
                = [ev |-> ev, need |-> Len(Sizes[ev]), got |-> FirstAtts(ev, n)]
           /\ Len(FirstAtts(ev, n)) = n
<1>1. n - 1 \in Nat /\ (n - 1) + 1 = n
  OBVIOUS
<1>2. Append(FirstAtts(ev, n - 1), [ev |-> ev, num |-> n]) = FirstAtts(ev, n) /\ Len(FirstAtts(ev, n)) = n
  BY Zenon, <1>1, OneMore
<1>3. AddBuffer([ev |-> ev, num |-> n])
        = [ev |-> ev, need |-> Len(Sizes[ev]), got |-> Append(FirstAtts(ev, n - 1), [ev |-> ev, num |-> n])]
  BY BufGrows, Zenon DEF Collecting
<1> QED BY <1>2, <1>3, Zenon

LEMMA AttachmentRead ==
    ASSUME ReadInv, HandlePacket, toClient[1].t = "att" PROVE ReadInv'
<1>1. toClient # <<>> /\ toClient' = Tail(toClient) /\ EmitQueueInv
  BY Zenon DEF HandlePacket, ReadInv
<1>2. Head(toClient) = toClient[1] /\ toClient[1] \in ServerPackets /\ EmitQueueInv'
  BY Zenon, <1>1, QueueTail
<1>3. toClient' # <<>> => Follows(toClient[1], toClient'[1])
  BY Zenon, <1>1, QueueTail
<1> DEFINE ev == toClient[1].ev
           n == toClient[1].num
           b == AddBuffer([ev |-> ev, num |-> n])
<1>4. ev \in Events /\ n \in Nat \ {0} /\ n - 1 \in Nat
  BY <1>2 DEF ServerPackets, AckPackets, HeaderPackets, AttPackets
<1>5. Attachment([ev |-> ev, num |-> n])
  BY ZenonT(30), <1>2 DEF HandlePacket
<1>6. CASE binaryBuf = NoEvent
  BY Zenon, <1>2, <1>5, <1>6 DEF Attachment, ReadInv, BufInv, EventIntact
<1>7. CASE binaryBuf # NoEvent
  <2>1. Collecting(binaryBuf, ev, n)
    BY Zenon, <1>1, <1>7 DEF ReadInv, BufInv
  <2>2. b = [ev |-> ev, need |-> Len(Sizes[ev]), got |-> FirstAtts(ev, n)] /\ Len(FirstAtts(ev, n)) = n
    BY <1>4, <2>1, Collects, Zenon
  <2>4. CASE Done(b)
    <3>1. binaryBuf' = NoEvent /\ dispatched' = dispatched \cup Reconstruct(b)
      BY ZenonT(30), <1>5, <1>7, <2>4 DEF Attachment
    <3>2. ASSUME NEW d \in Reconstruct(b)
          PROVE  d.buffers = [i \in 1..Len(Sizes[d.ev]) |-> [ev |-> d.ev, num |-> i]]
      <4>1. d = [ev |-> ev, buffers |-> FirstAtts(ev, n)] /\ n = Len(Sizes[ev])
        <5> HIDE DEF b, ev, n
        <5>1. b.ev = ev /\ b.need = Len(Sizes[ev]) /\ b.got = FirstAtts(ev, n)
          BY Zenon, <2>2
        <5> QED BY <2>2, <3>2, <5>1, Zenon DEF Reconstruct
      <4> QED BY ZenonT(30), <4>1 DEF FirstAtts
    <3> QED BY ZenonT(30), <1>2, <3>1, <3>2 DEF ReadInv, BufInv, EventIntact
  <2>5. CASE ~Done(b)
    <3>1. binaryBuf' = b /\ dispatched' = dispatched
      BY ZenonT(30), <1>5, <1>7, <2>5 DEF Attachment
    <3>2. ASSUME toClient' # <<>>, toClient'[1].t = "att"
          PROVE  Collecting(binaryBuf', toClient'[1].ev, toClient'[1].num)
      <4>1. toClient'[1].ev = ev /\ toClient'[1].num = n + 1
        BY Zenon, <1>3, <3>2 DEF Follows
      <4>2. (n + 1) - 1 = n
        BY <1>4
      <4> QED BY ZenonT(30), <2>2, <3>1, <4>1, <4>2 DEF Collecting
    <3> QED BY ZenonT(30), <1>2, <3>1, <3>2 DEF ReadInv, BufInv, EventIntact
  <2> QED BY Zenon, <2>4, <2>5
<1> QED BY Zenon, <1>6, <1>7

LEMMA AckRead ==
    ASSUME ReadInv, HandlePacket, toClient[1].t = "ack" PROVE ReadInv'
<1>1. toClient # <<>> /\ toClient' = Tail(toClient) /\ EmitQueueInv
  BY Zenon DEF HandlePacket, ReadInv
<1>2. Head(toClient) = toClient[1] /\ EmitQueueInv'
  BY Zenon, <1>1, QueueTail
<1>3. toClient' # <<>> => toClient'[1].t # "att"
  BY Zenon, <1>1, QueueTail DEF Follows
<1>4. UNCHANGED <<binaryBuf, dispatched>>
  BY Zenon, <1>2 DEF HandlePacket, HandleAck
<1> QED BY Zenon, <1>2, <1>3, <1>4 DEF ReadInv, BufInv, EventIntact

LEMMA ReadStep ==
    ASSUME ReadInv, TrafficNext PROVE ReadInv'
<1>1. CASE Drop
  BY Zenon, <1>1, QueueDropped
<1>2. CASE Reconnect
  BY Zenon, <1>2, ReadKept DEF Reconnect, arrivalVars
<1>3. CASE HandlePacket
  <2>1. toClient[1].t \in {"ack", "header", "att"}
    <3>1. toClient[1] \in ServerPackets
      BY <1>3 DEF ReadInv, EmitQueueInv, HandlePacket
    <3> QED BY Zenon, <3>1 DEF ServerPackets, AckPackets, HeaderPackets, AttPackets
  <2> QED BY Zenon, <1>3, <2>1, AckRead, HeaderRead, AttachmentRead
<1>4. CASE \E ev \in Events : ServerSends(ev)
  BY Zenon, <1>4, QueueSent
<1>5. ASSUME NEW e \in Emitters, EmitWithAck(e) \/ RegisterAckJob(e) \/ Write(e) \/ EmitReturns(e) \/ JobExpires(e)
      PROVE  ReadInv'
  BY <1>5, ReadKept, Zenon DEF EmitWithAck, RegisterAckJob, Write, EmitReturns, JobExpires, arrivalVars
<1>6. CASE \E e \in Emitters : ServerAcks(e)
  BY Zenon, <1>6, QueueAcked
<1> QED BY Zenon, <1>1, <1>2, <1>3, <1>4, <1>5, <1>6 DEF TrafficNext

---------------------------------------------------------------------------
LEMMA EmitStep ==
    ASSUME EmitInv, NEW e \in Emitters,
           EmitWithAck(e) \/ RegisterAckJob(e) \/ Write(e) \/ EmitReturns(e) \/ JobExpires(e)
    PROVE  EmitInv'
<1>1. CASE EmitWithAck(e)
  BY Zenon, <1>1 DEF EmitInv, EmitSteps, AckReachesCaller, EmitWithAck, Goto, arrivalVars
<1>2. CASE RegisterAckJob(e)
  BY Zenon, <1>2 DEF EmitInv, EmitSteps, AckReachesCaller, RegisterAckJob, Goto, arrivalVars
<1>3. CASE Write(e)
  <2>1. PICK l \in {"first", "second", "wait", "writeError"} : epc' = [epc EXCEPT ![e] = l]
    <3>1. NextStep("write") = "first" /\ NextStep("first") = "second" /\ NextStep("second") = "wait"
      BY Zenon DEF NextStep
    <3> QED BY Zenon, <1>3, <3>1 DEF Write, Goto
  <2>2. epc[e] \in {"write", "first", "second"} /\ UNCHANGED <<acks, expired, chan, arrived>>
    BY Zenon, <1>3 DEF Write, arrivalVars
  <2> QED BY Zenon, <2>1, <2>2 DEF EmitInv, EmitSteps, AckReachesCaller
<1>4. CASE EmitReturns(e)
  <2>1. PICK l \in {"result", "gaveUp"} : epc' = [epc EXCEPT ![e] = l]
    BY Zenon, <1>4 DEF EmitReturns, Goto
  <2>2. chan \ {e} \subseteq chan' /\ UNCHANGED <<acks, expired, arrived>>
    BY Zenon, <1>4 DEF EmitReturns, arrivalVars
  <2> QED BY Zenon, <2>1, <2>2 DEF EmitInv, EmitSteps, AckReachesCaller
<1>5. CASE JobExpires(e)
  BY Zenon, <1>5 DEF EmitInv, AckReachesCaller, JobExpires, arrivalVars
<1> QED BY Zenon, <1>1, <1>2, <1>3, <1>4, <1>5

\* The ack that is read finds the job, or its result is there already.
LEMMA AckTaken ==
    ASSUME EmitInv, NEW e \in Emitters, HandleAck(e), UNCHANGED <<expired, epc>>
    PROVE  EmitInv'
<1>1. arrived' \subseteq arrived \cup {e} /\ chan \subseteq chan' /\ acks \cup chan \subseteq acks' \cup chan'
  BY Zenon DEF HandleAck
<1>2. e \in arrived' => e \in arrived \/ e \in chan'
  BY Zenon DEF HandleAck, EmitInv
<1> QED BY Zenon, <1>1, <1>2 DEF EmitInv, AckReachesCaller

LEMMA EmitKept ==
    EmitInv /\ UNCHANGED <<epc, acks, expired, chan, arrived>> => EmitInv'
  BY Zenon DEF EmitInv, AckReachesCaller

LEMMA EmitPacket ==
    ASSUME ReadInv, EmitInv, HandlePacket PROVE EmitInv'
<1>1. Head(toClient) = toClient[1] /\ toClient[1] \in ServerPackets
  BY DEF ReadInv, EmitQueueInv, HandlePacket
<1>2. UNCHANGED <<expired, epc>>
  BY Zenon DEF HandlePacket
<1>3. CASE toClient[1].t = "ack"
  <2>1. toClient[1].id \in Emitters /\ HandleAck(toClient[1].id)
    BY Zenon, <1>1, <1>3 DEF HandlePacket, ServerPackets, AckPackets, HeaderPackets, AttPackets
  <2> QED BY Zenon, <1>2, <2>1, AckTaken
<1>4. CASE toClient[1].t # "ack"
  <2>1. UNCHANGED <<acks, chan, arrived>>
    BY Zenon, <1>1, <1>4 DEF HandlePacket, Attachment
  <2> QED BY Zenon, <1>2, <2>1, EmitKept
<1> QED BY Zenon, <1>3, <1>4

LEMMA TrafficStep ==
    ReadInv /\ EmitInv /\ [TrafficNext]_trafficVars => (ReadInv /\ EmitInv)'
<1> SUFFICES ASSUME ReadInv, EmitInv, [TrafficNext]_trafficVars PROVE ReadInv' /\ EmitInv'
  BY Zenon
<1>1. CASE UNCHANGED trafficVars
  BY Zenon, <1>1, ReadKept, EmitKept DEF trafficVars, emitVars, arrivalVars
<1>2. CASE TrafficNext
  <2>1. ASSUME Drop \/ Reconnect \/ (\E ev \in Events : ServerSends(ev)) \/ (\E e \in Emitters : ServerAcks(e))
        PROVE  UNCHANGED <<epc, acks, expired, chan, arrived>>
    <3>1. CASE Drop \/ Reconnect
      BY Zenon, <3>1 DEF Drop, Reconnect, emitVars, arrivalVars
    <3>2. ASSUME NEW ev \in Events, ServerSends(ev) PROVE UNCHANGED <<epc, acks, expired, chan, arrived>>
      BY Zenon, <3>2 DEF ServerSends, emitVars, arrivalVars
    <3>3. ASSUME NEW e \in Emitters, ServerAcks(e) PROVE UNCHANGED <<epc, acks, expired, chan, arrived>>
      BY Zenon, <3>3 DEF ServerAcks, emitVars, arrivalVars
    <3> QED BY Zenon, <2>1, <3>1, <3>2, <3>3
  <2>2. ReadInv'
    BY Zenon, <1>2, ReadStep
  <2>3. EmitInv'
    BY Zenon, <1>2, <2>1, EmitKept, EmitStep, EmitPacket DEF TrafficNext
  <2> QED BY Zenon, <2>2, <2>3
<1> QED BY Zenon, <1>1, <1>2

LEMMA TrafficAlways == TrafficSpec => [](ReadInv /\ EmitInv)
  BY TrafficStarts, TrafficStep, PTL DEF TrafficSpec

---------------------------------------------------------------------------
(* The datagram wrapper. *)

RaptorSpec == RaptorInit /\ [][RaptorNext]_raptorVars

\* The block under way is the end of what was accepted, and the sequence number
\* counts what was accepted.
Ends(b, s) == Len(b) <= Len(s) /\ \A j \in 1..Len(b) : b[j] = s[Len(s) - Len(b) + j]
BlockInv ==
    /\ accepted \in Seq(Nat) /\ block \in Seq(Nat) /\ Len(block) < N
    /\ sendSeq = Len(accepted) /\ Ends(block, accepted)

Protects(d, s) == \A i \in 1..N : d.seq - N + i \in DOMAIN s /\ s[d.seq - N + i] = d.data[i]
SymbolInv ==
    /\ \A d \in net \cup fed : d.repair => Protects(d, accepted)
    /\ \A d \in holding : ~d.repair

LEMMA RaptorStarts == RaptorInit => BlockInv /\ SymbolInv
  BY RaptorAssumption DEF RaptorInit, BlockInv, SymbolInv, Ends, Nothing

LEMMA Offsets ==
    ASSUME NEW m \in Nat, NEW n \in Nat, m <= n, NEW j \in Nat, 0 < j, j < m + 1
    PROVE  /\ j \in 1..m /\ n - m + j \in 1..n
           /\ (n + 1) - (m + 1) + j = n - m + j
  OBVIOUS

LEMMA BlockGrows ==
    ASSUME NEW b \in Seq(Nat), NEW s \in Seq(Nat), NEW p \in Nat, Ends(b, s)
    PROVE  Ends(Append(b, p), Append(s, p))
<1> DEFINE bp == Append(b, p)
           sp == Append(s, p)
<1>1. bp \in Seq(Nat) /\ Len(bp) = Len(b) + 1 /\ bp[Len(b) + 1] = p /\ \A j \in 1..Len(b) : bp[j] = b[j]
  OBVIOUS
<1>2. sp \in Seq(Nat) /\ Len(sp) = Len(s) + 1 /\ sp[Len(s) + 1] = p /\ \A j \in 1..Len(s) : sp[j] = s[j]
  OBVIOUS
<1> HIDE DEF bp, sp
<1>3. ASSUME NEW j \in 1..Len(bp) PROVE bp[j] = sp[Len(sp) - Len(bp) + j]
  <2>1. CASE j = Len(b) + 1
    <3>1. Len(sp) - Len(bp) + j = Len(s) + 1
      BY <1>1, <1>2, <2>1
    <3> QED BY Zenon, <1>1, <1>2, <2>1, <3>1
  <2>2. CASE j # Len(b) + 1
    <3>1. j \in 1..Len(b) /\ Len(sp) - Len(bp) + j = Len(s) - Len(b) + j /\ Len(s) - Len(b) + j \in 1..Len(s)
      <4>1. Len(b) \in Nat /\ Len(s) \in Nat /\ Len(b) <= Len(s) /\ j \in Nat /\ 0 < j /\ j < Len(b) + 1
        BY <1>1, <1>3, <2>2 DEF Ends
      <4>2. j \in 1..Len(b) /\ Len(s) - Len(b) + j \in 1..Len(s)
             /\ (Len(s) + 1) - (Len(b) + 1) + j = Len(s) - Len(b) + j
        BY <4>1, Offsets, Zenon
      <4> QED BY <1>1, <1>2, <4>2, Zenon
    <3>2. b[j] = s[Len(s) - Len(b) + j]
      BY Zenon, <3>1 DEF Ends
    <3> QED BY <1>1, <1>2, <3>1, <3>2, Zenon
  <2> QED BY Zenon, <2>1, <2>2
<1>4. Len(bp) <= Len(sp)
  BY <1>1, <1>2 DEF Ends
<1>5. Ends(bp, sp)
  BY ZenonT(30), <1>3, <1>4 DEF Ends
<1> QED BY Zenon, <1>5 DEF bp, sp

LEMMA FullBlock ==
    ASSUME NEW b \in Seq(Nat), NEW s \in Seq(Nat), Len(b) = N, Ends(b, s)
    PROVE  Protects(RepairSymbol(Len(s), b), s)
<1> DEFINE d == RepairSymbol(Len(s), b)
<1>1. d.seq = Len(s) /\ d.data = b
  BY Zenon DEF RepairSymbol
<1>2. ASSUME NEW i \in 1..N PROVE Len(s) - N + i \in DOMAIN s
  BY RaptorAssumption DEF RaptorAssumption, Ends
<1> HIDE DEF d
<1>3. Protects(d, s)
  BY <1>1, <1>2, ZenonT(30) DEF Ends, Protects
<1> QED BY Zenon, <1>3 DEF d

LEMMA StillProtects ==
    ASSUME NEW d, NEW s \in Seq(Nat), NEW p \in Nat, Protects(d, s)
    PROVE  Protects(d, Append(s, p))
  BY DEF Protects

LEMMA SendKeeps ==
    ASSUME BlockInv, SymbolInv, NEW p \in Nat, NEW ok \in BOOLEAN, NEW lost \in BOOLEAN,
           NEW lostRepair \in BOOLEAN, SendDatagram(p, ok, lost, lostRepair)
    PROVE  BlockInv' /\ SymbolInv'
<1>1. UNCHANGED <<fed, holding>>
  BY Zenon DEF SendDatagram, loopVars
<1>2. CASE ~ok
  BY Zenon, <1>1, <1>2 DEF SendDatagram, Unsent, BlockInv, SymbolInv
<1>3. CASE ok
  <2> DEFINE b == Append(block, p)
             d == DataSymbol(sendSeq, p)
             r == RepairSymbol(sendSeq + 1, b)
  <2>1. /\ sendSeq' = sendSeq + 1 /\ accepted' = Append(accepted, p)
        /\ block' = IF Len(b) = N THEN <<>> ELSE b
        /\ net' \subseteq net \cup {d} \cup (IF Len(b) = N THEN {r} ELSE {})
    BY Zenon, <1>3 DEF SendDatagram
  <2>2. accepted \in Seq(Nat) /\ block \in Seq(Nat) /\ Len(block) < N /\ sendSeq = Len(accepted)
    BY Zenon DEF BlockInv
  <2>3. b \in Seq(Nat) /\ Len(b) = Len(block) + 1 /\ accepted' \in Seq(Nat) /\ Len(accepted') = Len(accepted) + 1
    BY <2>1, <2>2
  <2>4. Ends(b, accepted')
    BY Zenon, <2>1, <2>2, BlockGrows DEF BlockInv
  <2>5. Ends(<<>>, accepted')
    BY <2>3 DEF Ends
  <2>6. ~d.repair
    BY Zenon DEF DataSymbol
  <2>7. Len(b) = N => Protects(r, accepted')
    BY <2>1, <2>2, <2>3, <2>4, FullBlock, Zenon
  <2>8. \A x \in net \cup fed : x.repair => Protects(x, accepted')
    BY Zenon, <2>1, <2>2, StillProtects DEF SymbolInv
  <2> HIDE DEF b, d, r
  <2>9. BlockInv'
    BY <2>1, <2>2, <2>3, <2>4, <2>5, RaptorAssumption DEF BlockInv
  <2>10. SymbolInv'
    BY Zenon, <1>1, <2>1, <2>6, <2>7, <2>8 DEF SymbolInv
  <2> QED BY Zenon, <2>9, <2>10
<1> QED BY Zenon, <1>2, <1>3

LEMMA BlockKept == BlockInv /\ UNCHANGED <<sendSeq, block, accepted>> => BlockInv'
  BY Zenon DEF BlockInv

LEMMA RaptorStep ==
    BlockInv /\ SymbolInv /\ [RaptorNext]_raptorVars => (BlockInv /\ SymbolInv)'
<1> SUFFICES ASSUME BlockInv, SymbolInv, [RaptorNext]_raptorVars PROVE BlockInv' /\ SymbolInv'
  BY Zenon
<1>1. CASE UNCHANGED raptorVars
  BY Zenon, <1>1, BlockKept DEF SymbolInv, raptorVars, datagramVars, loopVars
<1>2. ASSUME NEW p \in 1..MaxDatagrams, NEW ok \in BOOLEAN, NEW lost \in BOOLEAN,
             NEW lostRepair \in BOOLEAN, SendDatagram(p, ok, lost, lostRepair)
      PROVE  BlockInv' /\ SymbolInv'
  <2>1. p \in Nat
    OBVIOUS
  <2> QED BY Zenon, <1>2, <2>1, SendKeeps
<1>3. ASSUME NEW d \in net, TakeDatagram(d) PROVE BlockInv' /\ SymbolInv'
  BY ZenonT(30), <1>3, BlockKept DEF TakeDatagram, SymbolInv, datagramVars
<1>4. CASE Pass
  BY ZenonT(30), <1>4, BlockKept DEF Pass, SymbolInv, datagramVars, Nothing
<1>5. CASE TransportFails \/ ReceiveDatagram
  BY ZenonT(30), <1>5, BlockKept DEF TransportFails, ReceiveDatagram, SymbolInv, datagramVars, loopVars
<1>6. ASSUME NEW r \in fed, Decode(r) PROVE BlockInv' /\ SymbolInv'
  <2>1. PICK x, y : fed' = (fed \ {r}) \cup {DataSymbol(x, y)}
    BY <1>6, Zenon DEF Decode
  <2>2. ~DataSymbol(x, y).repair
    BY Zenon DEF DataSymbol
  <2>3. UNCHANGED <<sendSeq, block, accepted, net, holding>>
    BY Zenon, <1>6 DEF Decode, datagramVars
  <2> QED BY Zenon, <2>1, <2>2, <2>3, BlockKept DEF SymbolInv
<1> QED BY Zenon, <1>1, <1>2, <1>3, <1>4, <1>5, <1>6 DEF RaptorNext

LEMMA RaptorAlways == RaptorSpec => [](BlockInv /\ SymbolInv)
  BY RaptorStarts, RaptorStep, PTL DEF RaptorSpec

\* EmitWithAck, readLoop and the reassembly of binary events, and SendDatagram's
\* blocks: whatever the emitters, events, attachment sizes, limit, drops and block
\* length, an ack that is read in time reaches its call, handlers get an event's
\* own attachments, and a repair symbol names the payloads it protects.
THEOREM TrafficIsIntact == TrafficSpec /\ RaptorSpec => []TrafficIntact
<1>1. ReadInv /\ EmitInv => AckReachesCaller /\ EventIntact
  BY Zenon DEF ReadInv, EmitInv
<1>2. SymbolInv => RepairNamesItsBlock
  BY Zenon DEF SymbolInv, RepairNamesItsBlock, Protects
<1> QED BY <1>1, <1>2, TrafficAlways, RaptorAlways, PTL DEF TrafficIntact
=============================================================================
