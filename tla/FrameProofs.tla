---------------------------- MODULE FrameProofs ----------------------------
EXTENDS Framing, TLAPS

\* What Append and Tail do, and which of the written frames the counts of the
\* frames past the stream reach.
Appends(r, q, x) ==
    /\ Len(r) = Len(q) + 1 /\ r[Len(q) + 1] = x
    /\ \A i \in 1..Len(q) : r[i] = q[i]
Agree(g, f, w) == \A i \in 1..w : g[i] = f[i]
AgreePast(g, f, h, B, n, L) ==
    /\ \A i \in 1..h : g[i] = f[i]
    /\ B = 1 => g[h + 1] = f[h + 1]
    /\ \A j \in 1..n : g[h + B + j] = f[h + B + j]
    /\ L = 1 => g[h + B + n + 1] = f[h + B + n + 1]

LEMMA Appended ==
    ASSUME NEW S, NEW q \in Seq(S), NEW x \in S
    PROVE  Append(q, x) \in Seq(S) /\ Appends(Append(q, x), q, x)
  BY DEF Appends

LEMMA Popped ==
    ASSUME NEW S, NEW q \in Seq(S), q # <<>>
    PROVE  /\ Len(q) >= 1 /\ Len(q) - 1 \in Nat /\ Len(Tail(q)) = Len(q) - 1 /\ Head(q) = q[1] /\ q[1] \in S
           /\ \A j \in 1..(Len(q) - 1) : Tail(q)[j] = q[j + 1]
  OBVIOUS

LEMMA PassedAgree ==
    ASSUME NEW h \in Nat, NEW B \in {0, 1}, NEW n \in Nat, NEW L \in {0, 1}, NEW w \in Nat, h + B + n + L <= w,
           NEW f, NEW g, Agree(g, f, w)
    PROVE  AgreePast(g, f, h, B, n, L)
  BY DEF Agree, AgreePast

LEMMA Sums ==
    ASSUME NEW U \in Nat, NEW R \in {0, 1}
    PROVE  2 * U - R + 0 = 2 * U - R
  OBVIOUS

LEMMA Successors == \A w \in Nat : w + 1 \in Nat /\ w <= w + 1
  OBVIOUS

-----------------------------------------------------------------------------
(* Frames.  A buffer is with one sender, the read loop, the channel, the   *)
(* worker or the pool; what the pool hands out is with nobody.             *)

FrameSpec == FrameInit /\ [][FrameNext]_frameVars

MaybeBuffer == Buffers \cup {NoBuf}

FrameTypeOK ==
    /\ pooled \in [Buffers -> {0, 1}] /\ made \in SUBSET Buffers /\ DOMAIN content = Buffers
    /\ DOMAIN spc = Senders /\ DOMAIN sdata = Senders
    /\ sbuf \in [Senders -> MaybeBuffer] /\ senc \in [Senders -> MaybeBuffer]
    /\ rbuf \in MaybeBuffer /\ wbuf \in MaybeBuffer /\ incoming \in Seq(Buffers)

Has(s, b) == sbuf[s] = b \/ senc[s] = b
Queued(b) == \E i \in DOMAIN incoming : incoming[i] = b
QueuedOnce(b) == \A i, j \in DOMAIN incoming : incoming[i] = b /\ incoming[j] = b => i = j
Unheld(b) == (\A s \in Senders : ~Has(s, b)) /\ rbuf # b /\ wbuf # b /\ ~Queued(b)

\* The owners of one buffer exclude one another.
OneOwner(b) ==
    /\ b \notin made \/ pooled[b] = 1 => Unheld(b)
    /\ b \notin made => pooled[b] = 0
    /\ \A s, t \in Senders : Has(s, b) /\ Has(t, b) => s = t
    /\ \A s \in Senders : Has(s, b) => rbuf # b /\ wbuf # b /\ ~Queued(b)
    /\ rbuf = b => wbuf # b /\ ~Queued(b)
    /\ wbuf = b => ~Queued(b)
    /\ QueuedOnce(b)

\* Where a sender and the read loop have buffers.
FrameControl ==
    /\ rbuf = NoBuf <=> rpc \in {"header", "ended"}
    /\ \A s \in Senders : spc[s] = "idle" => sbuf[s] = NoBuf /\ senc[s] = NoBuf
    /\ \A s \in Senders : spc[s] = "encrypt" => sbuf[s] # NoBuf /\ senc[s] = NoBuf

OwnInv == FrameTypeOK /\ FrameControl /\ \A b \in Buffers : OneOwner(b)

\* Nothing has changed for a buffer.
Unmoved(b) ==
    /\ pooled'[b] = pooled[b] /\ (b \in made' <=> b \in made)
    /\ \A s \in Senders : Has(s, b)' <=> Has(s, b)
    /\ (rbuf' = b <=> rbuf = b) /\ (wbuf' = b <=> wbuf = b)
    /\ (Queued(b)' <=> Queued(b)) /\ (QueuedOnce(b) => QueuedOnce(b)')

LEMMA UnmovedKeeps ==
    ASSUME NEW b \in Buffers, OneOwner(b), Unmoved(b)
    PROVE  OneOwner(b)'
  BY ZenonT(60) DEF OneOwner, Unmoved, Unheld

\* The states of a buffer after a step that moved it.
LEMMA InPool ==
    ASSUME NEW b \in Buffers, b \in made', Unheld(b)'
    PROVE  OneOwner(b)'
  BY ZenonT(60) DEF OneOwner, Unheld, Queued, QueuedOnce

LEMMA WithSender ==
    ASSUME NEW b \in Buffers, b \in made', pooled'[b] = 0, NEW s \in Senders,
           \A t \in Senders : Has(t, b)' => t = s, rbuf' # b, wbuf' # b, ~Queued(b)'
    PROVE  OneOwner(b)'
  <1>1. pooled'[b] # 1
    OBVIOUS
  <1> QED
    BY ZenonT(60), <1>1 DEF OneOwner, Unheld, Queued, QueuedOnce

LEMMA WithLoop ==
    ASSUME NEW b \in Buffers, b \in made', pooled'[b] = 0, \A t \in Senders : ~Has(t, b)',
           \/ wbuf' # b /\ ~Queued(b)'
           \/ rbuf' # b /\ ~Queued(b)'
           \/ rbuf' # b /\ wbuf' # b /\ QueuedOnce(b)'
    PROVE  OneOwner(b)'
  <1>1. pooled'[b] # 1
    OBVIOUS
  <1>2. ~Queued(b)' => QueuedOnce(b)'
    BY ZenonT(30) DEF Queued, QueuedOnce
  <1> QED
    BY ZenonT(60), <1>1, <1>2 DEF OneOwner

LEMMA AvailableIsUnheld ==
    ASSUME OwnInv, NEW b \in Available
    PROVE  b \in Buffers /\ Unheld(b)
  <1>1. CASE b \in Buffers /\ pooled[b] > 0
    <2>1. pooled[b] = 1
      BY <1>1 DEF OwnInv, FrameTypeOK
    <2> QED
      BY ZenonT(30), <1>1, <2>1 DEF OwnInv, OneOwner
  <1>2. CASE made # Buffers /\ b = CHOOSE c \in Buffers : c \notin made
    <2>1. \E c \in Buffers : c \notin made
      BY ZenonT(30), <1>2 DEF OwnInv, FrameTypeOK
    <2>2. b \in Buffers /\ b \notin made
      BY ZenonT(30), <1>2, <2>1
    <2> QED
      BY ZenonT(30), <2>2 DEF OwnInv, OneOwner
  <1> QED
    BY ZenonT(30), <1>1, <1>2 DEF Available

\* What AcquireFrameBuffer does to the pool.
LEMMA AcquireFacts ==
    ASSUME OwnInv, NEW b, NEW d, Acquire(b, d)
    PROVE  /\ b \in Buffers /\ Unheld(b) /\ pooled' \in [Buffers -> {0, 1}] /\ pooled'[b] = 0
           /\ made' = made \cup {b} /\ made' \in SUBSET Buffers
           /\ DOMAIN content' = Buffers /\ content'[b] = d
           /\ \A c \in Buffers : c # b => pooled'[c] = pooled[c] /\ content'[c] = content[c]
  <1>1. b \in Buffers /\ Unheld(b)
    BY AvailableIsUnheld DEF Acquire
  <1>2. PICK n : n = IF pooled[b] > 0 THEN pooled[b] - 1 ELSE 0
    BY Zenon
  <1>3. n = 0
    BY <1>1, <1>2 DEF OwnInv, FrameTypeOK
  <1>4. pooled' = [pooled EXCEPT ![b] = n]
    BY <1>2 DEF Acquire
  <1> QED
    BY <1>1, <1>3, <1>4 DEF Acquire, OwnInv, FrameTypeOK

\* What ReleaseFrameBuffer does to it, when nobody else has the buffers.
LEMMA ReleaseFacts ==
    ASSUME OwnInv, NEW bs, Release(bs), \A b \in Buffers : b \in bs => pooled[b] = 0
    PROVE  /\ pooled' \in [Buffers -> {0, 1}] /\ made' = made /\ content' = content
           /\ \A b \in Buffers : pooled'[b] = IF b \in bs THEN 1 ELSE pooled[b]
  <1>1. \A b \in Buffers : pooled'[b] = IF b \in bs THEN 1 ELSE pooled[b]
    BY DEF Release, OwnInv, FrameTypeOK
  <1>2. pooled' = [b \in Buffers |-> IF b \in bs THEN pooled[b] + 1 ELSE pooled[b]]
    BY DEF Release
  <1>3. DOMAIN pooled' = Buffers
    BY <1>2
  <1> QED
    BY <1>1, <1>2, <1>3 DEF Release, OwnInv, FrameTypeOK

LEMMA HeldIsOut ==
    ASSUME OwnInv, NEW b \in Buffers, ~Unheld(b)
    PROVE  pooled[b] = 0 /\ b \in made
  <1>1. pooled[b] # 1 /\ b \in made
    BY ZenonT(30) DEF OwnInv, OneOwner
  <1> QED
    BY <1>1 DEF OwnInv, FrameTypeOK

\* Only the buffers and the label of one sender change; the loops stand still.
SenderStep(s, l, x, y) ==
    /\ spc' = [spc EXCEPT ![s] = l] /\ sbuf' = [sbuf EXCEPT ![s] = x] /\ senc' = [senc EXCEPT ![s] = y]
    /\ l = "idle" => x = NoBuf /\ y = NoBuf
    /\ l = "encrypt" => x # NoBuf /\ y = NoBuf
    /\ rbuf' = rbuf /\ rpc' = rpc /\ wbuf' = wbuf /\ incoming' = incoming /\ DOMAIN sdata' = Senders

\* Buffers other than b are with s as before when it has x and y.
SameBut(s, b, x, y) == \A c \in Buffers : c # b => (x = c \/ y = c <=> Has(s, c))

LEMMA SenderMoves ==
    ASSUME OwnInv, NEW s \in Senders, NEW l, NEW x \in MaybeBuffer, NEW y \in MaybeBuffer,
           SenderStep(s, l, x, y),
           pooled' \in [Buffers -> {0, 1}], made' \in SUBSET Buffers, DOMAIN content' = Buffers
    PROVE  /\ FrameTypeOK' /\ FrameControl'
           /\ sbuf'[s] = x /\ senc'[s] = y
           /\ \A b \in Buffers : \A t \in Senders : t # s => (Has(t, b)' <=> Has(t, b))
           /\ \A b \in Buffers : (Queued(b)' <=> Queued(b)) /\ (QueuedOnce(b) => QueuedOnce(b)')
  <1>1. /\ sbuf'[s] = x /\ senc'[s] = y /\ spc'[s] = l /\ DOMAIN spc' = Senders
        /\ \A t \in Senders : t # s => sbuf'[t] = sbuf[t] /\ senc'[t] = senc[t] /\ spc'[t] = spc[t]
    BY DEF OwnInv, FrameTypeOK, SenderStep
  <1>2. FrameTypeOK'
    BY <1>1 DEF OwnInv, FrameTypeOK, SenderStep
  <1>3. FrameControl'
    BY ZenonT(60), <1>1 DEF OwnInv, FrameControl, SenderStep
  <1>4. \A b \in Buffers : \A t \in Senders : t # s => (Has(t, b)' <=> Has(t, b))
    BY ZenonT(30), <1>1 DEF Has
  <1>5. \A b \in Buffers : (Queued(b)' <=> Queued(b)) /\ (QueuedOnce(b) => QueuedOnce(b)')
    BY ZenonT(30) DEF Queued, QueuedOnce, SenderStep
  <1> QED
    BY <1>1, <1>2, <1>3, <1>4, <1>5

\* A sender that had no use for y takes a new buffer b.
LEMMA SenderTakes ==
    ASSUME OwnInv, NEW s \in Senders, NEW b, NEW d, Acquire(b, d), NEW l, NEW x \in MaybeBuffer, NEW y \in MaybeBuffer,
           SenderStep(s, l, x, y),
           SameBut(s, b, x, y)
    PROVE  OwnInv'
  <1>1. /\ b \in Buffers /\ Unheld(b) /\ pooled' \in [Buffers -> {0, 1}] /\ pooled'[b] = 0
        /\ made' = made \cup {b} /\ made' \in SUBSET Buffers /\ DOMAIN content' = Buffers
        /\ \A c \in Buffers : c # b => pooled'[c] = pooled[c] /\ content'[c] = content[c]
    BY ZenonT(30), AcquireFacts
  <1>2. /\ FrameTypeOK' /\ FrameControl'
        /\ sbuf'[s] = x /\ senc'[s] = y
        /\ \A c \in Buffers : \A t \in Senders : t # s => (Has(t, c)' <=> Has(t, c))
        /\ \A c \in Buffers : (Queued(c)' <=> Queued(c)) /\ (QueuedOnce(c) => QueuedOnce(c)')
    BY ZenonT(30), <1>1, SenderMoves
  <1>3. OneOwner(b)'
    <2>1. \A t \in Senders : Has(t, b)' => t = s
      BY ZenonT(30), <1>1, <1>2 DEF Unheld
    <2>2. rbuf' # b /\ wbuf' # b /\ ~Queued(b)'
      BY ZenonT(30), <1>1, <1>2 DEF Unheld, SenderStep
    <2>3. b \in made'
      BY <1>1
    <2> QED
      BY ZenonT(30), <1>1, <2>1, <2>2, <2>3, WithSender
  <1>4. ASSUME NEW c \in Buffers, c # b PROVE OneOwner(c)'
    <2>1. Has(s, c)' <=> Has(s, c)
      BY ZenonT(30), <1>2, <1>4 DEF Has, SameBut
    <2>2. c \in made' <=> c \in made
      BY <1>1, <1>4
    <2>3. Unmoved(c)
      BY ZenonT(30), <1>1, <1>2, <1>4, <2>1, <2>2 DEF Unmoved, SenderStep
    <2> QED
      BY ZenonT(30), <2>3, UnmovedKeeps DEF OwnInv
  <1> QED
    BY ZenonT(30), <1>2, <1>3, <1>4 DEF OwnInv

\* A sender gives its buffers back.
LEMMA SenderReleases ==
    ASSUME OwnInv, NEW s \in Senders, Release({sbuf[s], senc[s]}),
           spc' = [spc EXCEPT ![s] = "idle"], sbuf' = [sbuf EXCEPT ![s] = NoBuf], senc' = [senc EXCEPT ![s] = NoBuf],
           rbuf' = rbuf, rpc' = rpc, wbuf' = wbuf, incoming' = incoming, sdata' = sdata
    PROVE  OwnInv'
  <1>1. \A b \in Buffers : Has(s, b) => pooled[b] = 0 /\ b \in made
    BY ZenonT(30), HeldIsOut DEF Unheld
  <1>2. PICK bs : bs = {sbuf[s], senc[s]}
    BY Zenon
  <1>3. \A b \in Buffers : b \in bs <=> Has(s, b)
    BY ZenonT(30), <1>2 DEF Has
  <1>4. /\ pooled' \in [Buffers -> {0, 1}] /\ made' = made /\ content' = content
        /\ \A b \in Buffers : pooled'[b] = IF b \in bs THEN 1 ELSE pooled[b]
    <2>1. Release(bs) /\ \A b \in Buffers : b \in bs => pooled[b] = 0
      BY ZenonT(30), <1>1, <1>2, <1>3
    <2> QED
      BY ZenonT(30), <2>1, ReleaseFacts
  <1>5. /\ FrameTypeOK' /\ FrameControl'
        /\ sbuf'[s] = NoBuf /\ senc'[s] = NoBuf
        /\ \A c \in Buffers : \A t \in Senders : t # s => (Has(t, c)' <=> Has(t, c))
        /\ \A c \in Buffers : (Queued(c)' <=> Queued(c)) /\ (QueuedOnce(c) => QueuedOnce(c)')
    <2>1. DOMAIN sdata' = Senders /\ made' \in SUBSET Buffers /\ DOMAIN content' = Buffers /\ NoBuf \in MaybeBuffer
      BY <1>4 DEF OwnInv, FrameTypeOK, MaybeBuffer
    <2>2. SenderStep(s, "idle", NoBuf, NoBuf)
      BY SMTT(30), <2>1 DEF SenderStep
    <2> QED
      BY ZenonT(30), <1>4, <2>1, <2>2, SenderMoves
  <1>6. ASSUME NEW b \in Buffers PROVE OneOwner(b)'
    <2>1. ~Has(s, b)'
      BY ZenonT(30), <1>5, FramingAssumption DEF Has, FramingAssumption
    <2>2. CASE Has(s, b)
      <3>1. \A t \in Senders : ~Has(t, b)'
        BY ZenonT(30), <1>5, <2>1, <2>2 DEF OwnInv, OneOwner
      <3>2. rbuf' # b /\ wbuf' # b /\ ~Queued(b)' /\ b \in made'
        BY ZenonT(30), <1>1, <1>4, <1>5, <2>2 DEF OwnInv, OneOwner
      <3> QED
        BY ZenonT(30), <3>1, <3>2, InPool DEF Unheld
    <2>3. CASE ~Has(s, b)
      <3>1. Unmoved(b)
        BY ZenonT(30), <1>3, <1>4, <1>5, <2>1, <2>3 DEF Unmoved
      <3> QED
        BY ZenonT(30), <3>1, UnmovedKeeps DEF OwnInv
    <2> QED
      BY <2>2, <2>3
  <1> QED
    BY ZenonT(30), <1>5, <1>6 DEF OwnInv

LEMMA SenderOwns ==
    ASSUME OwnInv, NEW s \in Senders,
           (\E d \in Data : SendFrame(s, d)) \/ Encrypt(s) \/ WriteHeader(s) \/ WriteData(s) \/ WriteFails(s) \/ SendRelease(s)
    PROVE  OwnInv'
  <1> USE DEF sendVars, readVars
  <1>1. /\ sbuf[s] \in MaybeBuffer /\ senc[s] \in MaybeBuffer /\ NoBuf \in MaybeBuffer
        /\ sbuf' = sbuf => sbuf' = [sbuf EXCEPT ![s] = sbuf[s]]
        /\ senc' = senc => senc' = [senc EXCEPT ![s] = senc[s]]
    BY DEF OwnInv, FrameTypeOK, MaybeBuffer
  <1>2. ASSUME NEW l, l \notin {"idle", "encrypt"}, spc' = [spc EXCEPT ![s] = l], sbuf' = sbuf,
               NEW y \in MaybeBuffer, senc' = [senc EXCEPT ![s] = y], y = senc[s] \/ (y = sbuf[s] /\ senc[s] = NoBuf),
               rbuf' = rbuf, rpc' = rpc, wbuf' = wbuf, incoming' = incoming, UNCHANGED poolVars, DOMAIN sdata' = Senders
        PROVE  OwnInv'
    <2>1. /\ pooled' = pooled /\ made' = made /\ pooled' \in [Buffers -> {0, 1}] /\ made' \in SUBSET Buffers
          /\ DOMAIN content' = Buffers
      BY <1>2 DEF OwnInv, FrameTypeOK, poolVars
    <2>2. PICK x \in MaybeBuffer : x = sbuf[s] /\ sbuf' = [sbuf EXCEPT ![s] = x]
      BY ZenonT(30), <1>1, <1>2
    <2>3. /\ FrameTypeOK' /\ FrameControl'
          /\ sbuf'[s] = x /\ senc'[s] = y
          /\ \A c \in Buffers : \A t \in Senders : t # s => (Has(t, c)' <=> Has(t, c))
          /\ \A c \in Buffers : (Queued(c)' <=> Queued(c)) /\ (QueuedOnce(c) => QueuedOnce(c)')
      <3>1. SenderStep(s, l, x, y)
        BY ZenonT(30), <1>2, <2>2 DEF SenderStep
      <3> QED
        BY ZenonT(30), <1>2, <2>1, <2>2, <3>1, SenderMoves
    <2>4. ASSUME NEW c \in Buffers PROVE OneOwner(c)'
      <3>1. Has(s, c)' <=> Has(s, c)
        BY ZenonT(30), <1>2, <2>2, <2>3, FramingAssumption DEF Has, FramingAssumption
      <3>2. Unmoved(c)
        BY ZenonT(30), <1>2, <2>1, <2>3, <3>1 DEF Unmoved
      <3> QED
        BY ZenonT(30), <3>2, UnmovedKeeps DEF OwnInv
    <2> QED
      BY ZenonT(30), <2>3, <2>4 DEF OwnInv
  <1>3. ASSUME NEW d \in Data, SendFrame(s, d) PROVE OwnInv'
    <2>1. /\ spc[s] = "idle" /\ rbuf' = rbuf /\ rpc' = rpc /\ wbuf' = wbuf /\ incoming' = incoming /\ senc' = senc
          /\ sdata' = [sdata EXCEPT ![s] = d] /\ DOMAIN sdata' = Senders
      BY <1>3 DEF SendFrame, OwnInv, FrameTypeOK
    <2>2. sbuf[s] = NoBuf /\ senc[s] = NoBuf
      BY <2>1 DEF OwnInv, FrameControl
    <2>3. CASE cipher = "none"
      <3>1. PICK l : l = "header"
        BY Zenon
      <3>2. l \notin {"idle", "encrypt"} /\ spc' = [spc EXCEPT ![s] = l] /\ UNCHANGED poolVars /\ sbuf' = sbuf
        BY <1>3, <2>3, <3>1 DEF SendFrame
      <3> QED
        BY ZenonT(30), <1>1, <1>2, <2>1, <3>2
    <2>4. CASE cipher # "none"
      <3>1. PICK b \in Buffers : Acquire(b, d) /\ sbuf' = [sbuf EXCEPT ![s] = b]
        BY ZenonT(30), <1>3, <2>4 DEF SendFrame
      <3>2. PICK l : l = "encrypt"
        BY Zenon
      <3>3. l # "idle" /\ spc' = [spc EXCEPT ![s] = l] /\ b # NoBuf /\ b \in MaybeBuffer
        BY <1>3, <2>4, <3>2, FramingAssumption DEF SendFrame, FramingAssumption, MaybeBuffer
      <3>4. \A c \in Buffers : c # b => (b = c \/ NoBuf = c <=> Has(s, c))
        BY ZenonT(30), <2>2 DEF Has
      <3>5. senc' = [senc EXCEPT ![s] = NoBuf]
        BY ZenonT(30), <1>1, <2>1, <2>2
      <3> QED
        <4>1. SenderStep(s, l, b, NoBuf)
          BY ZenonT(30), <2>1, <3>1, <3>3, <3>5 DEF SenderStep
        <4>2. SameBut(s, b, b, NoBuf)
          BY ZenonT(30), <3>4 DEF SameBut
        <4> QED
          BY ZenonT(30), <1>1, <3>1, <3>3, <4>1, <4>2, SenderTakes
    <2> QED
      BY <2>3, <2>4
  <1>4. CASE Encrypt(s)
    <2>1. /\ spc[s] = "encrypt" /\ rbuf' = rbuf /\ rpc' = rpc /\ wbuf' = wbuf /\ incoming' = incoming
          /\ sdata' = sdata /\ DOMAIN sdata' = Senders
      BY <1>4 DEF Encrypt, OwnInv, FrameTypeOK
    <2>2. sbuf[s] # NoBuf /\ senc[s] = NoBuf
      BY <2>1 DEF OwnInv, FrameControl
    <2>3. CASE Release({sbuf[s]}) /\ spc' = [spc EXCEPT ![s] = "idle"] /\ sbuf' = [sbuf EXCEPT ![s] = NoBuf] /\ senc' = senc
      <3>1. Release({sbuf[s], senc[s]})
        BY ZenonT(30), <2>2, <2>3, FramingAssumption DEF Release, FramingAssumption
      <3>2. senc' = [senc EXCEPT ![s] = NoBuf]
        BY ZenonT(30), <1>1, <2>2, <2>3
      <3> QED
        BY ZenonT(30), <2>1, <2>3, <3>1, <3>2, SenderReleases
    <2>4. CASE /\ senc' = [senc EXCEPT ![s] = sbuf[s]]
               /\ spc' = [spc EXCEPT ![s] = "header"] /\ UNCHANGED <<poolVars, sbuf>>
      <3>1. PICK l : l = "header"
        BY Zenon
      <3>2. l \notin {"idle", "encrypt"}
        BY <3>1
      <3> QED
        BY ZenonT(30), <1>1, <1>2, <2>1, <2>2, <2>4, <3>1, <3>2
    <2>5. CASE /\ \E b \in Buffers : Acquire(b, content[sbuf[s]]) /\ senc' = [senc EXCEPT ![s] = b]
               /\ spc' = [spc EXCEPT ![s] = "header"] /\ sbuf' = sbuf
      <3>1. PICK b \in Buffers : Acquire(b, content[sbuf[s]]) /\ senc' = [senc EXCEPT ![s] = b]
        BY ZenonT(30), <2>5
      <3>2. PICK l : l = "header"
        BY Zenon
      <3>3. l # "idle" /\ l # "encrypt" /\ b \in MaybeBuffer
        BY <3>2 DEF MaybeBuffer
      <3>4. PICK x \in MaybeBuffer : x = sbuf[s]
        BY ZenonT(30), <1>1
      <3>5. \A c \in Buffers : c # b => (x = c \/ b = c <=> Has(s, c))
        BY ZenonT(30), <2>2, <3>4, FramingAssumption DEF Has, FramingAssumption
      <3>6. PICK d : d = content[sbuf[s]]
        BY Zenon
      <3>7. SenderStep(s, l, x, b)
        BY ZenonT(30), <1>1, <2>1, <2>5, <3>1, <3>2, <3>3, <3>4 DEF SenderStep
      <3>8. SameBut(s, b, x, b) /\ Acquire(b, d)
        BY ZenonT(30), <3>1, <3>5, <3>6 DEF SameBut
      <3> QED
        BY ZenonT(30), <3>3, <3>7, <3>8, SenderTakes
    <2> QED
      BY ZenonT(30), <1>4, <2>3, <2>4, <2>5 DEF Encrypt
  <1>5. CASE WriteHeader(s) \/ WriteData(s) \/ WriteFails(s)
    <2>1. /\ rbuf' = rbuf /\ rpc' = rpc /\ wbuf' = wbuf /\ incoming' = incoming /\ UNCHANGED poolVars
          /\ sbuf' = sbuf /\ senc' = senc /\ sdata' = sdata
      BY ZenonT(30), <1>5 DEF WriteHeader, WriteData, WriteFails
    <2>2. \E l \in {"data", "release"} : spc' = [spc EXCEPT ![s] = l]
      BY ZenonT(30), <1>5 DEF WriteHeader, WriteData, WriteFails
    <2>3. PICK l \in {"data", "release"} : spc' = [spc EXCEPT ![s] = l]
      BY ZenonT(30), <2>2
    <2>4. l \notin {"idle", "encrypt"} /\ DOMAIN sdata' = Senders
      BY <2>1 DEF OwnInv, FrameTypeOK
    <2> QED
      BY ZenonT(30), <1>1, <1>2, <2>1, <2>3, <2>4
  <1>6. CASE SendRelease(s)
    BY ZenonT(30), <1>6, SenderReleases DEF SendRelease
  <1> QED
    BY ZenonT(30), <1>3, <1>4, <1>5, <1>6

\* The senders stand still.
LEMMA LoopMoves ==
    ASSUME OwnInv, UNCHANGED sendVars, pooled' \in [Buffers -> {0, 1}], made' \in SUBSET Buffers, DOMAIN content' = Buffers,
           rbuf' \in MaybeBuffer, wbuf' \in MaybeBuffer, incoming' \in Seq(Buffers),
           rbuf' = NoBuf <=> rpc' \in {"header", "ended"}
    PROVE  FrameTypeOK' /\ FrameControl' /\ \A b \in Buffers : \A s \in Senders : Has(s, b)' <=> Has(s, b)
  <1>1. FrameTypeOK'
    BY DEF OwnInv, FrameTypeOK, sendVars
  <1>2. FrameControl'
    BY ZenonT(30) DEF OwnInv, FrameControl, sendVars
  <1>3. \A b \in Buffers : \A s \in Senders : Has(s, b)' <=> Has(s, b)
    BY ZenonT(30) DEF Has, sendVars
  <1> QED
    BY <1>1, <1>2, <1>3

\* The read loop gives its buffer, if any, back to the pool.
LEMMA ReaderReleases ==
    ASSUME OwnInv, Release({rbuf}), rbuf' = NoBuf, rpc' = "ended", UNCHANGED sendVars, wbuf' = wbuf, incoming' = incoming
    PROVE  OwnInv'
  <1>1. \A b \in Buffers : rbuf = b => pooled[b] = 0 /\ b \in made
    BY ZenonT(30), HeldIsOut DEF Unheld
  <1>2. PICK bs : bs = {rbuf}
    BY Zenon
  <1>3. \A b \in Buffers : b \in bs <=> rbuf = b
    BY ZenonT(30), <1>2
  <1>4. /\ pooled' \in [Buffers -> {0, 1}] /\ made' = made /\ content' = content
        /\ \A b \in Buffers : pooled'[b] = IF b \in bs THEN 1 ELSE pooled[b]
    <2>1. Release(bs) /\ \A b \in Buffers : b \in bs => pooled[b] = 0
      BY ZenonT(30), <1>1, <1>2, <1>3
    <2> QED
      BY ZenonT(30), <2>1, ReleaseFacts
  <1>5. FrameTypeOK' /\ FrameControl' /\ \A b \in Buffers : \A s \in Senders : Has(s, b)' <=> Has(s, b)
    <2>1. /\ made' \in SUBSET Buffers /\ DOMAIN content' = Buffers /\ rbuf' \in MaybeBuffer
          /\ wbuf' \in MaybeBuffer /\ incoming' \in Seq(Buffers)
      BY <1>4 DEF OwnInv, FrameTypeOK, MaybeBuffer
    <2>2. rbuf' = NoBuf <=> rpc' \in {"header", "ended"}
      BY Zenon
    <2> QED
      BY ZenonT(30), <1>4, <2>1, <2>2, LoopMoves
  <1>6. \A b \in Buffers : (Queued(b)' <=> Queued(b)) /\ (QueuedOnce(b) => QueuedOnce(b)')
    BY ZenonT(30) DEF Queued, QueuedOnce
  <1>7. ASSUME NEW b \in Buffers PROVE OneOwner(b)'
    <2>1. rbuf' # b
      BY FramingAssumption DEF FramingAssumption
    <2>2. CASE rbuf = b
      <3>1. \A s \in Senders : ~Has(s, b)
        BY ZenonT(30), <2>2 DEF OwnInv, OneOwner
      <3>2. wbuf' # b /\ ~Queued(b)' /\ b \in made'
        BY ZenonT(30), <1>1, <1>4, <1>6, <2>2 DEF OwnInv, OneOwner
      <3> QED
        BY ZenonT(30), <1>5, <2>1, <3>1, <3>2, InPool DEF Unheld
    <2>3. CASE rbuf # b
      <3>1. Unmoved(b)
        BY ZenonT(30), <1>3, <1>4, <1>5, <1>6, <2>1, <2>3 DEF Unmoved
      <3> QED
        BY ZenonT(30), <3>1, UnmovedKeeps DEF OwnInv
    <2> QED
      BY <2>2, <2>3
  <1> QED
    BY ZenonT(30), <1>5, <1>7 DEF OwnInv

LEMMA ReadHeaderOwns == ASSUME OwnInv, ReadHeader PROVE OwnInv'
  <1>1. rpc = "header" /\ rbuf = NoBuf /\ UNCHANGED sendVars /\ incoming' = incoming /\ wbuf' = wbuf
    BY ZenonT(30) DEF ReadHeader, OwnInv, FrameControl
  <1>2. \A b \in Buffers : (Queued(b)' <=> Queued(b)) /\ (QueuedOnce(b) => QueuedOnce(b)')
    BY ZenonT(30), <1>1 DEF Queued, QueuedOnce
  <1>3. CASE \E b \in Buffers : Acquire(b, 0) /\ rbuf' = b /\ rpc' = "data"
    <2>1. PICK b \in Buffers : Acquire(b, 0) /\ rbuf' = b /\ rpc' = "data"
      BY <1>3
    <2>2. /\ Unheld(b) /\ pooled' \in [Buffers -> {0, 1}] /\ pooled'[b] = 0
          /\ made' = made \cup {b} /\ made' \in SUBSET Buffers /\ DOMAIN content' = Buffers
          /\ \A c \in Buffers : c # b => pooled'[c] = pooled[c] /\ content'[c] = content[c]
      BY ZenonT(30), <2>1, AcquireFacts
    <2>3. FrameTypeOK' /\ FrameControl' /\ \A c \in Buffers : \A s \in Senders : Has(s, c)' <=> Has(s, c)
      <3>1. rbuf' \in MaybeBuffer /\ wbuf' \in MaybeBuffer /\ incoming' \in Seq(Buffers)
        BY <1>1, <2>1 DEF OwnInv, FrameTypeOK, MaybeBuffer
      <3>2. rbuf' = NoBuf <=> rpc' \in {"header", "ended"}
        BY <2>1, FramingAssumption DEF FramingAssumption
      <3> QED
        BY ZenonT(30), <1>1, <2>2, <3>1, <3>2, LoopMoves
    <2>4. OneOwner(b)'
      <3>1. (\A s \in Senders : ~Has(s, b)') /\ wbuf' # b /\ ~Queued(b)'
        BY ZenonT(30), <1>1, <1>2, <2>2, <2>3 DEF Unheld
      <3>2. b \in made'
        BY <2>2
      <3> QED
        BY ZenonT(30), <2>2, <3>1, <3>2, WithLoop
    <2>5. ASSUME NEW c \in Buffers, c # b PROVE OneOwner(c)'
      <3>1. c \in made' <=> c \in made
        BY <2>2, <2>5
      <3>2. rbuf' # c /\ rbuf # c
        BY <1>1, <2>1, <2>5, FramingAssumption DEF FramingAssumption
      <3>3. Unmoved(c)
        BY ZenonT(30), <1>1, <1>2, <2>2, <2>3, <2>5, <3>1, <3>2 DEF Unmoved
      <3> QED
        BY ZenonT(30), <3>3, UnmovedKeeps DEF OwnInv
    <2> QED
      BY ZenonT(30), <2>3, <2>4, <2>5 DEF OwnInv
  <1>4. CASE rpc' = "ended" /\ UNCHANGED <<poolVars, rbuf>>
    <2>1. Release({rbuf})
      BY <1>1, <1>4, FramingAssumption DEF Release, poolVars, OwnInv, FrameTypeOK, FramingAssumption
    <2> QED
      BY ZenonT(30), <1>1, <1>4, <2>1, ReaderReleases
  <1> QED
    BY ZenonT(30), <1>3, <1>4 DEF ReadHeader

\* A buffer passes from the read loop to the channel, or from there to the worker.
\* The others are left where they are.
PassesOn(x) ==
    /\ UNCHANGED <<pooled, made, content>> /\ UNCHANGED sendVars
    /\ \A b \in Buffers : b # x => /\ (rbuf' = b <=> rbuf = b) /\ (wbuf' = b <=> wbuf = b)
                                   /\ (Queued(b)' <=> Queued(b)) /\ (QueuedOnce(b) => QueuedOnce(b)')
    /\ \/ wbuf' # x /\ ~Queued(x)'
       \/ rbuf' # x /\ ~Queued(x)'
       \/ rbuf' # x /\ wbuf' # x /\ QueuedOnce(x)'
    /\ rbuf' \in MaybeBuffer /\ wbuf' \in MaybeBuffer /\ incoming' \in Seq(Buffers)
    /\ rbuf' = NoBuf <=> rpc' \in {"header", "ended"}

LEMMA PassesOnOwns ==
    ASSUME OwnInv, NEW x \in Buffers, PassesOn(x), rbuf = x \/ Queued(x)
    PROVE  OwnInv'
  <1>1. pooled' = pooled /\ made' = made /\ pooled' \in [Buffers -> {0, 1}] /\ made' \in SUBSET Buffers /\ DOMAIN content' = Buffers
    BY DEF OwnInv, FrameTypeOK, PassesOn
  <1>2. FrameTypeOK' /\ FrameControl' /\ \A b \in Buffers : \A s \in Senders : Has(s, b)' <=> Has(s, b)
    BY ZenonT(30), <1>1, LoopMoves DEF PassesOn
  <1>3. OneOwner(x)'
    <2>1. pooled[x] = 0 /\ x \in made
      BY ZenonT(30), HeldIsOut DEF Unheld
    <2>2. \A s \in Senders : ~Has(s, x)'
      BY ZenonT(30), <1>2 DEF OwnInv, OneOwner
    <2> QED
      BY ZenonT(30), <1>1, <2>1, <2>2, WithLoop DEF PassesOn
  <1>4. ASSUME NEW b \in Buffers, b # x PROVE OneOwner(b)'
    <2>1. Unmoved(b)
      BY ZenonT(30), <1>1, <1>2, <1>4 DEF PassesOn, Unmoved
    <2> QED
      BY ZenonT(30), <2>1, UnmovedKeeps DEF OwnInv
  <1> QED
    BY ZenonT(30), <1>2, <1>3, <1>4 DEF OwnInv

\* Decrypt into another buffer: the read loop has that one, and the pool the first.
LEMMA DecryptCopies ==
    ASSUME OwnInv, NEW b \in Available \ {rbuf}, rpc = "decrypt", rpc' = "deliver", rbuf' = b, made' = made \cup {b},
           content' = [content EXCEPT ![b] = content[rbuf]],
           pooled' = [pooled EXCEPT ![b] = IF @ > 0 THEN @ - 1 ELSE 0, ![rbuf] = @ + 1],
           UNCHANGED sendVars, wbuf' = wbuf, incoming' = incoming
    PROVE  OwnInv'
  <1>1. b \in Buffers /\ Unheld(b) /\ b # rbuf
    BY AvailableIsUnheld
  <1>2. rbuf \in Buffers
    BY DEF OwnInv, FrameTypeOK, FrameControl, MaybeBuffer
  <1>3. pooled[rbuf] = 0 /\ rbuf \in made
    BY ZenonT(30), <1>2, HeldIsOut DEF Unheld
  <1>4. PICK n : n = IF pooled[b] > 0 THEN pooled[b] - 1 ELSE 0
    BY Zenon
  <1>5. n = 0
    BY <1>1, <1>4 DEF OwnInv, FrameTypeOK
  <1>6. PICK m : m = pooled[rbuf] + 1
    BY Zenon
  <1>7. m = 1
    BY <1>3, <1>6
  <1>8. DOMAIN pooled = Buffers
    BY DEF OwnInv, FrameTypeOK
  <1>9. /\ DOMAIN pooled' = Buffers /\ pooled'[b] = 0 /\ pooled'[rbuf] = 1
        /\ \A c \in Buffers : c # b /\ c # rbuf => pooled'[c] = pooled[c]
    BY <1>1, <1>2, <1>3, <1>4, <1>5, <1>8
  <1>10. pooled' \in [Buffers -> {0, 1}]
    BY <1>1, <1>2, <1>9 DEF OwnInv, FrameTypeOK
  <1>11. FrameTypeOK' /\ FrameControl' /\ \A c \in Buffers : \A s \in Senders : Has(s, c)' <=> Has(s, c)
    <2>1. /\ made' \in SUBSET Buffers /\ DOMAIN content' = Buffers
          /\ rbuf' \in MaybeBuffer /\ wbuf' \in MaybeBuffer /\ incoming' \in Seq(Buffers)
      BY <1>1 DEF OwnInv, FrameTypeOK, MaybeBuffer
    <2>2. rbuf' = NoBuf <=> rpc' \in {"header", "ended"}
      BY <1>1, FramingAssumption DEF FramingAssumption
    <2> QED
      BY ZenonT(30), <1>10, <2>1, <2>2, LoopMoves
  <1>12. \A c \in Buffers : (Queued(c)' <=> Queued(c)) /\ (QueuedOnce(c) => QueuedOnce(c)')
    BY ZenonT(30) DEF Queued, QueuedOnce
  <1>13. OneOwner(b)'
    <2>1. (\A s \in Senders : ~Has(s, b)') /\ wbuf' # b /\ ~Queued(b)'
      BY ZenonT(30), <1>1, <1>11, <1>12 DEF Unheld
    <2>2. b \in made'
      OBVIOUS
    <2> QED
      BY ZenonT(30), <1>1, <1>9, <2>1, <2>2, WithLoop
  <1>14. ASSUME NEW c \in Buffers, c = rbuf PROVE OneOwner(c)'
    <2>1. (\A s \in Senders : ~Has(s, c)') /\ wbuf' # c /\ ~Queued(c)'
      BY ZenonT(30), <1>11, <1>12, <1>14 DEF OwnInv, OneOwner
    <2>2. c \in made' /\ rbuf' # c
      BY <1>1, <1>3, <1>14
    <2> QED
      BY ZenonT(30), <2>1, <2>2, InPool DEF Unheld
  <1>15. ASSUME NEW c \in Buffers, c # b, c # rbuf PROVE OneOwner(c)'
    <2>1. c \in made' <=> c \in made
      BY <1>15
    <2>2. Unmoved(c)
      BY ZenonT(30), <1>9, <1>11, <1>12, <1>15, <2>1 DEF Unmoved
    <2> QED
      BY ZenonT(30), <2>2, UnmovedKeeps DEF OwnInv
  <1> QED
    BY ZenonT(30), <1>11, <1>13, <1>14, <1>15 DEF OwnInv

LEMMA DeliverOwns == ASSUME OwnInv, Deliver PROVE OwnInv'
  <1>1. /\ rpc = "deliver" /\ rbuf' = NoBuf /\ UNCHANGED sendVars /\ wbuf' = wbuf
        /\ rbuf \in Buffers /\ incoming \in Seq(Buffers)
    <2>1. rpc = "deliver" /\ rbuf' = NoBuf /\ UNCHANGED sendVars /\ wbuf' = wbuf
      BY ZenonT(30) DEF Deliver
    <2> QED
      BY <2>1 DEF OwnInv, FrameTypeOK, FrameControl, MaybeBuffer
  <1>2. CASE incoming' = Append(incoming, rbuf) /\ rpc' \in {"ended", "header"} /\ UNCHANGED poolVars
    <2>1. PICK x \in Buffers : x = rbuf
      BY <1>1
    <2>2. /\ incoming' \in Seq(Buffers) /\ Len(incoming) \in Nat /\ DOMAIN incoming = 1..Len(incoming)
          /\ DOMAIN incoming' = 1..(Len(incoming) + 1) /\ incoming'[Len(incoming) + 1] = x
          /\ \A i \in DOMAIN incoming : incoming'[i] = incoming[i]
      BY <1>1, <1>2, <2>1
    <2>3. PICK n : n = Len(incoming) + 1
      BY Zenon
    <2>4. /\ n \in DOMAIN incoming' /\ \A i \in DOMAIN incoming' : i \in DOMAIN incoming \/ i = n
          /\ \A i \in DOMAIN incoming : i \in DOMAIN incoming'
      BY <2>2, <2>3
    <2>5. ASSUME NEW b \in Buffers, b # x
          PROVE  (Queued(b)' <=> Queued(b)) /\ (QueuedOnce(b) => QueuedOnce(b)')
      BY ZenonT(30), <2>2, <2>3, <2>4, <2>5 DEF Queued, QueuedOnce
    <2>6. ~Queued(x) /\ wbuf # x
      BY ZenonT(30), <2>1 DEF OwnInv, OneOwner
    <2>7. QueuedOnce(x)'
      BY ZenonT(30), <2>2, <2>3, <2>4, <2>6 DEF Queued, QueuedOnce
    <2>8. \A b \in Buffers : rbuf' # b
      BY <1>1, FramingAssumption DEF FramingAssumption
    <2>9. rbuf' \in MaybeBuffer /\ wbuf' \in MaybeBuffer
      BY <1>1 DEF MaybeBuffer, OwnInv, FrameTypeOK
    <2>10. PassesOn(x)
      BY ZenonT(30), <1>1, <1>2, <2>1, <2>2, <2>5, <2>6, <2>7, <2>8, <2>9 DEF PassesOn, poolVars
    <2> QED
      BY ZenonT(30), <2>1, <2>10, PassesOnOwns
  <1>3. CASE Release({rbuf}) /\ rpc' = "ended" /\ UNCHANGED incoming
    BY ZenonT(30), <1>1, <1>3, ReaderReleases
  <1> QED
    BY ZenonT(30), <1>2, <1>3 DEF Deliver

LEMMA TakeOwns == ASSUME OwnInv, Take PROVE OwnInv'
  <1>1. /\ wbuf = NoBuf /\ incoming # <<>> /\ wbuf' = Head(incoming) /\ incoming' = Tail(incoming)
        /\ UNCHANGED poolVars /\ UNCHANGED sendVars /\ rpc' = rpc /\ rbuf' = rbuf
    BY DEF Take, readVars
  <1>2. incoming \in Seq(Buffers)
    BY DEF OwnInv, FrameTypeOK
  <1>3. /\ incoming' \in Seq(Buffers) /\ Len(incoming) \in Nat /\ Len(incoming) > 0 /\ DOMAIN incoming = 1..Len(incoming)
        /\ DOMAIN incoming' = 1..(Len(incoming) - 1) /\ \A i \in DOMAIN incoming' : incoming'[i] = incoming[i + 1]
        /\ wbuf' = incoming[1] /\ wbuf' \in Buffers /\ 1 \in DOMAIN incoming
    BY <1>1, <1>2
  <1>4. PICK x \in Buffers : x = wbuf'
    BY <1>3
  <1>5. ASSUME NEW b \in Buffers
        PROVE  (b # x => (Queued(b)' <=> Queued(b))) /\ (QueuedOnce(b) => QueuedOnce(b)')
    <2>1. Queued(b)' => Queued(b)
      <3> SUFFICES ASSUME NEW i \in DOMAIN incoming', incoming'[i] = b PROVE Queued(b)
        BY ZenonT(30) DEF Queued
      <3>1. i + 1 \in DOMAIN incoming /\ incoming[i + 1] = b
        BY <1>3
      <3> QED
        BY ZenonT(30), <3>1 DEF Queued
    <2>2. ASSUME b # x, Queued(b) PROVE Queued(b)'
      <3>1. PICK i \in DOMAIN incoming : incoming[i] = b
        BY <2>2 DEF Queued
      <3>2. i # 1
        BY <1>3, <1>4, <2>2, <3>1
      <3>3. i - 1 \in DOMAIN incoming' /\ incoming'[i - 1] = b
        BY <1>3, <3>1, <3>2
      <3> QED
        BY ZenonT(30), <3>3 DEF Queued
    <2>3. ASSUME QueuedOnce(b) PROVE QueuedOnce(b)'
      <3> SUFFICES ASSUME NEW i \in DOMAIN incoming', NEW j \in DOMAIN incoming', incoming'[i] = b, incoming'[j] = b
                   PROVE  i = j
        BY ZenonT(30) DEF QueuedOnce
      <3>1. /\ i + 1 \in DOMAIN incoming /\ incoming[i + 1] = b
            /\ j + 1 \in DOMAIN incoming /\ incoming[j + 1] = b
        BY <1>3
      <3>2. i + 1 = j + 1
        BY ZenonT(30), <2>3, <3>1 DEF QueuedOnce
      <3> QED
        BY <1>3, <3>2
    <2> QED
      BY <2>1, <2>2, <2>3
  <1>6. Queued(x)
    BY ZenonT(30), <1>3, <1>4 DEF Queued
  <1>7. ~Queued(x)'
    <2> SUFFICES ASSUME NEW i \in DOMAIN incoming', incoming'[i] = x PROVE FALSE
      BY ZenonT(30) DEF Queued
    <2>1. i + 1 \in DOMAIN incoming /\ incoming[i + 1] = x /\ incoming[1] = x /\ i + 1 # 1
      BY <1>3, <1>4
    <2> QED
      BY ZenonT(30), <1>3, <2>1 DEF OwnInv, OneOwner, QueuedOnce
  <1>8. rbuf' # x
    BY ZenonT(30), <1>1, <1>6 DEF OwnInv, OneOwner
  <1>9. \A b \in Buffers : b # x => wbuf' # b /\ wbuf # b
    BY <1>1, <1>4, FramingAssumption DEF FramingAssumption
  <1>10. rbuf' \in MaybeBuffer /\ wbuf' \in MaybeBuffer /\ (rbuf' = NoBuf <=> rpc' \in {"header", "ended"})
    BY <1>1, <1>3 DEF MaybeBuffer, OwnInv, FrameTypeOK, FrameControl
  <1>11. PassesOn(x)
    BY ZenonT(30), <1>1, <1>3, <1>5, <1>7, <1>8, <1>9, <1>10 DEF PassesOn, poolVars
  <1> QED
    BY ZenonT(30), <1>6, <1>11, PassesOnOwns

LEMMA ProcessOwns == ASSUME OwnInv, ProcessFrame PROVE OwnInv'
  <1>1. /\ wbuf # NoBuf /\ wbuf' = NoBuf /\ Release({wbuf})
        /\ UNCHANGED sendVars /\ rpc' = rpc /\ rbuf' = rbuf /\ incoming' = incoming
    BY ZenonT(30) DEF ProcessFrame, readVars
  <1>2. \A b \in Buffers : wbuf = b => pooled[b] = 0 /\ b \in made
    BY ZenonT(30), HeldIsOut DEF Unheld
  <1>3. PICK bs : bs = {wbuf}
    BY Zenon
  <1>4. \A b \in Buffers : b \in bs <=> wbuf = b
    BY ZenonT(30), <1>3
  <1>5. /\ pooled' \in [Buffers -> {0, 1}] /\ made' = made /\ content' = content
        /\ \A b \in Buffers : pooled'[b] = IF b \in bs THEN 1 ELSE pooled[b]
    <2>1. Release(bs) /\ \A b \in Buffers : b \in bs => pooled[b] = 0
      BY ZenonT(30), <1>1, <1>2, <1>3, <1>4
    <2> QED
      BY ZenonT(30), <2>1, ReleaseFacts
  <1>6. FrameTypeOK' /\ FrameControl' /\ \A b \in Buffers : \A s \in Senders : Has(s, b)' <=> Has(s, b)
    <2>1. /\ made' \in SUBSET Buffers /\ DOMAIN content' = Buffers /\ rbuf' \in MaybeBuffer
          /\ wbuf' \in MaybeBuffer /\ incoming' \in Seq(Buffers)
      BY <1>1, <1>5 DEF OwnInv, FrameTypeOK, MaybeBuffer
    <2>2. rbuf' = NoBuf <=> rpc' \in {"header", "ended"}
      BY ZenonT(30), <1>1 DEF OwnInv, FrameControl
    <2> QED
      BY ZenonT(30), <1>1, <1>5, <2>1, <2>2, LoopMoves
  <1>7. \A b \in Buffers : (Queued(b)' <=> Queued(b)) /\ (QueuedOnce(b) => QueuedOnce(b)')
    BY ZenonT(30), <1>1 DEF Queued, QueuedOnce
  <1>8. ASSUME NEW b \in Buffers PROVE OneOwner(b)'
    <2>1. wbuf' # b
      BY <1>1, FramingAssumption DEF FramingAssumption
    <2>2. CASE wbuf = b
      <3>1. (\A s \in Senders : ~Has(s, b)) /\ rbuf # b
        BY ZenonT(30), <2>2 DEF OwnInv, OneOwner
      <3>2. ~Queued(b)' /\ b \in made'
        BY ZenonT(30), <1>2, <1>5, <1>7, <2>2 DEF OwnInv, OneOwner
      <3> QED
        BY ZenonT(30), <1>1, <1>6, <2>1, <3>1, <3>2, InPool DEF Unheld
    <2>3. CASE wbuf # b
      <3>1. Unmoved(b)
        BY ZenonT(30), <1>1, <1>4, <1>5, <1>6, <1>7, <2>1, <2>3 DEF Unmoved
      <3> QED
        BY ZenonT(30), <3>1, UnmovedKeeps DEF OwnInv
    <2> QED
      BY <2>2, <2>3
  <1> QED
    BY ZenonT(30), <1>6, <1>8 DEF OwnInv

\* No buffer changes hands.
LEMMA NobodyMoves ==
    ASSUME OwnInv, UNCHANGED sendVars, pooled' = pooled, made' = made, DOMAIN content' = Buffers,
           rbuf' = rbuf, wbuf' = wbuf, incoming' = incoming, rbuf' = NoBuf <=> rpc' \in {"header", "ended"}
    PROVE  OwnInv'
  <1>1. FrameTypeOK' /\ FrameControl' /\ \A b \in Buffers : \A s \in Senders : Has(s, b)' <=> Has(s, b)
    <2>1. /\ pooled' \in [Buffers -> {0, 1}] /\ made' \in SUBSET Buffers /\ rbuf' \in MaybeBuffer
          /\ wbuf' \in MaybeBuffer /\ incoming' \in Seq(Buffers)
      BY DEF OwnInv, FrameTypeOK, MaybeBuffer
    <2> QED
      BY ZenonT(30), <2>1, LoopMoves
  <1>2. \A b \in Buffers : (Queued(b)' <=> Queued(b)) /\ (QueuedOnce(b) => QueuedOnce(b)')
    BY ZenonT(30) DEF Queued, QueuedOnce
  <1>3. \A b \in Buffers : Unmoved(b)
    BY ZenonT(30), <1>1, <1>2 DEF Unmoved
  <1> QED
    BY ZenonT(30), <1>1, <1>3, UnmovedKeeps DEF OwnInv

LEMMA ReaderOwns == ASSUME OwnInv, ReadHeader \/ ReadData \/ ReadFails \/ Decrypt \/ Deliver PROVE OwnInv'
  <1>1. CASE ReadHeader
    BY <1>1, ReadHeaderOwns
  <1>2. CASE Deliver
    BY <1>2, DeliverOwns
  <1>3. CASE ReadFails
    BY ZenonT(30), <1>3, ReaderReleases DEF ReadFails
  <1>4. CASE ReadData
    <2>1. /\ rpc = "data" /\ rpc' \in {"deliver", "decrypt"} /\ rbuf' = rbuf /\ wbuf' = wbuf /\ incoming' = incoming
          /\ pooled' = pooled /\ made' = made /\ UNCHANGED sendVars
      BY ZenonT(30), <1>4 DEF ReadData
    <2>2. DOMAIN content' = Buffers
      BY <1>4 DEF ReadData, OwnInv, FrameTypeOK
    <2>3. rbuf' = NoBuf <=> rpc' \in {"header", "ended"}
      BY <2>1 DEF OwnInv, FrameControl
    <2> QED
      BY ZenonT(30), <2>1, <2>2, <2>3, NobodyMoves
  <1>5. CASE Decrypt
    <2>1. rpc = "decrypt" /\ UNCHANGED sendVars /\ wbuf' = wbuf /\ incoming' = incoming
      BY ZenonT(30), <1>5 DEF Decrypt
    <2>2. CASE Release({rbuf}) /\ rpc' = "ended" /\ rbuf' = NoBuf
      BY ZenonT(30), <2>1, <2>2, ReaderReleases
    <2>3. CASE rpc' = "deliver" /\ UNCHANGED <<poolVars, rbuf>>
      <3>1. DOMAIN content' = Buffers /\ pooled' = pooled /\ made' = made /\ rbuf' = rbuf
        BY <2>3 DEF OwnInv, FrameTypeOK, poolVars
      <3>2. rbuf' = NoBuf <=> rpc' \in {"header", "ended"}
        BY <2>1, <2>3 DEF OwnInv, FrameControl
      <3> QED
        BY ZenonT(30), <2>1, <3>1, <3>2, NobodyMoves
    <2>4. ASSUME NEW b \in Available \ {rbuf}, rpc' = "deliver", rbuf' = b, made' = made \cup {b},
                 content' = [content EXCEPT ![b] = content[rbuf]],
                 pooled' = [pooled EXCEPT ![b] = IF @ > 0 THEN @ - 1 ELSE 0, ![rbuf] = @ + 1]
          PROVE  OwnInv'
      BY ZenonT(30), <2>1, <2>4, DecryptCopies
    <2> QED
      BY ZenonT(30), <1>5, <2>2, <2>3, <2>4 DEF Decrypt
  <1> QED
    BY <1>1, <1>2, <1>3, <1>4, <1>5

LEMMA OwnStep == OwnInv /\ [FrameNext]_frameVars => OwnInv'
  <1> SUFFICES ASSUME OwnInv, [FrameNext]_frameVars PROVE OwnInv'
    OBVIOUS
  <1>1. CASE Cancel \/ UNCHANGED frameVars
    <2>1. /\ UNCHANGED sendVars /\ pooled' = pooled /\ made' = made /\ content' = content
          /\ rbuf' = rbuf /\ wbuf' = wbuf /\ incoming' = incoming /\ rpc' = rpc
      BY ZenonT(30), <1>1 DEF Cancel, frameVars, sendVars, poolVars, readVars
    <2>2. DOMAIN content' = Buffers /\ (rbuf' = NoBuf <=> rpc' \in {"header", "ended"})
      BY <2>1 DEF OwnInv, FrameTypeOK, FrameControl
    <2> QED
      BY ZenonT(30), <2>1, <2>2, NobodyMoves
  <1> QED
    BY ZenonT(30), <1>1, SenderOwns, ReaderOwns, TakeOwns, ProcessOwns DEF FrameNext

LEMMA OwnInit == FrameInit => OwnInv
  <1> SUFFICES ASSUME FrameInit PROVE OwnInv
    OBVIOUS
  <1>1. FrameTypeOK
    BY DEF FrameInit, FrameTypeOK, MaybeBuffer
  <1>2. FrameControl
    BY DEF FrameInit, FrameControl
  <1>3. ASSUME NEW b \in Buffers PROVE OneOwner(b)
    <2>1. b # NoBuf /\ pooled[b] = 0 /\ DOMAIN incoming = {} /\ \A s \in Senders : sbuf[s] = NoBuf /\ senc[s] = NoBuf
      BY FramingAssumption DEF FrameInit, FramingAssumption
    <2> QED
      BY ZenonT(60), <2>1 DEF FrameInit, OneOwner, Unheld, Has, Queued, QueuedOnce
  <1> QED
    BY <1>1, <1>2, <1>3 DEF OwnInv

LEMMA OwnerFacts ==
    ASSUME OwnInv, NEW b \in Buffers, NEW o \in Owners(b)
    PROVE  \/ \E s \in Senders : o = <<"sender", s>> /\ Has(s, b)
           \/ \E i \in DOMAIN incoming : o = <<"channel", i>> /\ incoming[i] = b
           \/ o = <<"loop", "read">> /\ rbuf = b
           \/ o = <<"loop", "work">> /\ wbuf = b
           \/ o = <<"pool", 1>> /\ pooled[b] = 1
  <1>1. CASE o \in {"sender"} \X {s \in Senders : b \in {sbuf[s], senc[s]}}
    BY <1>1 DEF Has
  <1>2. CASE o \in {"channel"} \X {i \in DOMAIN incoming : incoming[i] = b}
    BY <1>2
  <1>3. CASE o \in {"loop"} \X {l \in {"read", "work"} : b = IF l = "read" THEN rbuf ELSE wbuf}
    BY <1>3
  <1>4. CASE o \in {"pool"} \X (1..pooled[b])
    <2>1. pooled[b] \in {0, 1}
      BY DEF OwnInv, FrameTypeOK
    <2>2. o = <<"pool", o[2]>> /\ o[2] \in 1..pooled[b]
      BY <1>4
    <2>3. o[2] = 1 /\ pooled[b] = 1
      BY <2>1, <2>2
    <2> QED
      BY ZenonT(30), <2>2, <2>3
  <1> QED
    BY ZenonT(30), <1>1, <1>2, <1>3, <1>4 DEF Owners

\* Whatever senders, the read loop and the worker do, and however many there are,
\* no buffer has two owners: none is released twice or used after its release.
THEOREM BuffersOwned == FrameSpec => []BufferOwnedOnce
  <1>1. OwnInv => BufferOwnedOnce
    <2> SUFFICES ASSUME OwnInv, NEW b \in Buffers, NEW o \in Owners(b), NEW p \in Owners(b) PROVE o = p
      BY ZenonT(30) DEF BufferOwnedOnce
    <2>1. /\ \A s, t \in Senders : Has(s, b) /\ Has(t, b) => s = t
          /\ \A i, j \in DOMAIN incoming : incoming[i] = b /\ incoming[j] = b => i = j
          /\ (\E s \in Senders : Has(s, b)) => rbuf # b /\ wbuf # b /\ ~Queued(b)
          /\ rbuf = b => wbuf # b /\ ~Queued(b)
          /\ wbuf = b => ~Queued(b)
          /\ pooled[b] = 1 => (\A s \in Senders : ~Has(s, b)) /\ rbuf # b /\ wbuf # b /\ ~Queued(b)
      BY ZenonT(30) DEF OwnInv, OneOwner, QueuedOnce, Unheld
    <2>2. \A i \in DOMAIN incoming : incoming[i] = b => Queued(b)
      BY ZenonT(30) DEF Queued
    <2> DEFINE Owner(x) == \/ \E s \in Senders : x = <<"sender", s>> /\ Has(s, b)
                           \/ \E i \in DOMAIN incoming : x = <<"channel", i>> /\ incoming[i] = b
                           \/ x = <<"loop", "read">> /\ rbuf = b
                           \/ x = <<"loop", "work">> /\ wbuf = b
                           \/ x = <<"pool", 1>> /\ pooled[b] = 1
    <2>3. Owner(o) /\ Owner(p)
      BY OwnerFacts
    <2>4. CASE \E s \in Senders : o = <<"sender", s>> /\ Has(s, b)
      BY ZenonT(30), <2>1, <2>2, <2>3, <2>4
    <2>5. CASE \E i \in DOMAIN incoming : o = <<"channel", i>> /\ incoming[i] = b
      BY ZenonT(30), <2>1, <2>2, <2>3, <2>5
    <2>6. CASE o = <<"loop", "read">> /\ rbuf = b
      BY ZenonT(30), <2>1, <2>2, <2>3, <2>6
    <2>7. CASE o = <<"loop", "work">> /\ wbuf = b
      BY ZenonT(30), <2>1, <2>2, <2>3, <2>7
    <2>8. CASE o = <<"pool", 1>> /\ pooled[b] = 1
      BY ZenonT(30), <2>1, <2>2, <2>3, <2>8
    <2> QED
      BY ZenonT(30), <2>3, <2>4, <2>5, <2>6, <2>7, <2>8
  <1> QED
    BY <1>1, OwnInit, OwnStep, PTL DEF FrameSpec

-----------------------------------------------------------------------------
(* What is dispatched.  With one sender the frames that were written are,  *)
(* in this order: dispatched, with the worker, in the channel, with the    *)
(* read loop, in the stream.                                               *)

Contents == Data \cup {0}

FlowTypeOK ==
    /\ written \in Seq(Contents) /\ handled \in Seq(Contents) /\ stream \in Seq({"len", "data"} \X Contents)
    /\ content \in [Buffers -> Contents] /\ sdata \in [Senders -> Contents]

Busy == IF wbuf = NoBuf THEN 0 ELSE 1
Loaded == IF rpc \in {"decrypt", "deliver"} THEN 1 ELSE 0
\* How many frames the read loop has passed on.
Passed == Len(handled) + Busy + Len(incoming)

PrefixInv ==
    /\ Passed + Loaded <= Len(written)
    /\ \A i \in 1..Len(handled) : handled[i] = written[i]
    /\ wbuf # NoBuf => content[wbuf] = written[Len(handled) + 1]
    /\ \A j \in 1..Len(incoming) : content[incoming[j]] = written[Len(handled) + Busy + j]
    /\ Loaded = 1 => content[rbuf] = written[Passed + 1]

\* The stream alternates headers and data; the read loop may be between the two of
\* a frame, and so may the sender.
BetweenReads == IF rpc = "data" THEN 1 ELSE 0
BetweenWrites(s) == IF spc[s] = "data" THEN 1 ELSE 0
Unread == Len(written) - (Passed + Loaded)

PendingInv(s) ==
    rpc # "ended" =>
      /\ Len(stream) = 2 * Unread - BetweenReads + BetweenWrites(s)
      /\ \A i \in 1..Unread : stream[2 * i - BetweenReads][2] = written[Passed + Loaded + i]

\* A sender's buffers hold its payload until the frame is written.
PayloadInv(s) ==
    /\ spc[s] = "encrypt" => sbuf[s] \in Buffers /\ content[sbuf[s]] = sdata[s]
    /\ spc[s] \in {"header", "data"} =>
         \/ cipher = "none"
         \/ cipher # "none" /\ senc[s] \in Buffers /\ content[senc[s]] = sdata[s]

Flow(s) == FlowTypeOK /\ PrefixInv /\ PendingInv(s) /\ PayloadInv(s)
FlowInv == \A s \in Senders : Senders = {s} => Flow(s)

LEMMA FlowInit == FrameInit => FlowInv
  <1> SUFFICES ASSUME FrameInit PROVE FlowInv
    OBVIOUS
  <1>1. /\ written = <<>> /\ handled = <<>> /\ stream = <<>> /\ incoming = <<>> /\ wbuf = NoBuf /\ rpc = "header"
        /\ content \in [Buffers -> Contents] /\ sdata \in [Senders -> Contents] /\ \A s \in Senders : spc[s] = "idle"
    BY DEF FrameInit, Contents
  <1>2. FlowTypeOK
    BY <1>1 DEF FlowTypeOK
  <1>3. Busy = 0 /\ Loaded = 0 /\ Passed = 0 /\ BetweenReads = 0 /\ Unread = 0
    <2>1. Busy = 0 /\ Loaded = 0 /\ BetweenReads = 0
      BY <1>1 DEF Busy, Loaded, BetweenReads
    <2>2. Len(handled) = 0 /\ Len(incoming) = 0 /\ Len(written) = 0 /\ 0 + 0 + 0 = 0 /\ 0 - (0 + 0) = 0
      BY <1>1
    <2> QED
      BY ZenonT(30), <2>1, <2>2 DEF Passed, Unread
  <1>4. PrefixInv
    BY <1>1, <1>3 DEF PrefixInv
  <1>5. ASSUME NEW s \in Senders PROVE PendingInv(s) /\ PayloadInv(s)
    <2>1. spc[s] = "idle" /\ BetweenWrites(s) = 0
      BY <1>1 DEF BetweenWrites
    <2>2. PendingInv(s)
      <3>1. Len(stream) = 0 /\ 2 * 0 - 0 + 0 = 0 /\ 1..0 = {}
        BY <1>1
      <3> QED
        BY ZenonT(30), <1>3, <2>1, <3>1 DEF PendingInv
    <2> QED
      BY <2>1, <2>2 DEF PayloadInv
  <1> QED
    BY ZenonT(30), <1>2, <1>4, <1>5 DEF FlowInv, Flow

\* The counts are natural numbers, and what they count is held.
LEMMA FlowFacts ==
    ASSUME OwnInv, FlowTypeOK, PrefixInv
    PROVE  /\ Len(handled) \in Nat /\ Len(incoming) \in Nat /\ Len(written) \in Nat /\ Len(stream) \in Nat
           /\ DOMAIN handled = 1..Len(handled) /\ DOMAIN incoming = 1..Len(incoming)
           /\ DOMAIN written = 1..Len(written) /\ DOMAIN stream = 1..Len(stream)
           /\ Busy \in {0, 1} /\ Loaded \in {0, 1} /\ BetweenReads \in {0, 1}
           /\ Passed \in Nat /\ Unread \in Nat
           /\ Loaded = 1 => rbuf \in Buffers /\ BetweenReads = 0
           /\ wbuf # NoBuf <=> Busy = 1
  <1>1. /\ Len(handled) \in Nat /\ Len(incoming) \in Nat /\ Len(written) \in Nat /\ Len(stream) \in Nat
        /\ DOMAIN handled = 1..Len(handled) /\ DOMAIN incoming = 1..Len(incoming)
        /\ DOMAIN written = 1..Len(written) /\ DOMAIN stream = 1..Len(stream)
    BY DEF OwnInv, FrameTypeOK, FlowTypeOK
  <1>2. Busy \in {0, 1} /\ Loaded \in {0, 1} /\ BetweenReads \in {0, 1} /\ (wbuf # NoBuf <=> Busy = 1)
    BY DEF Busy, Loaded, BetweenReads
  <1>3. Passed \in Nat
    BY <1>1, <1>2 DEF Passed
  <1>4. Unread \in Nat
    BY <1>1, <1>2, <1>3 DEF PrefixInv, Unread
  <1>5. Loaded = 1 => rbuf \in Buffers /\ BetweenReads = 0
    BY DEF Loaded, BetweenReads, OwnInv, FrameTypeOK, FrameControl, MaybeBuffer
  <1> QED
    BY <1>1, <1>2, <1>3, <1>4, <1>5

\* What changes hands keeps its content, and frames are only added to those written.
Keeps ==
    /\ \A b \in Buffers : ~Unheld(b) => content'[b] = content[b]
    /\ Len(written') \in Nat /\ Len(written) <= Len(written')
    /\ \A i \in 1..Len(written) : written'[i] = written[i]

LEMMA HeldByLoops ==
    ASSUME OwnInv
    PROVE  /\ wbuf # NoBuf => wbuf \in Buffers /\ ~Unheld(wbuf)
           /\ \A j \in 1..Len(incoming) : incoming[j] \in Buffers /\ ~Unheld(incoming[j])
           /\ rbuf # NoBuf => rbuf \in Buffers /\ ~Unheld(rbuf)
  <1>1. /\ wbuf # NoBuf => wbuf \in Buffers
        /\ rbuf # NoBuf => rbuf \in Buffers
        /\ DOMAIN incoming = 1..Len(incoming) /\ \A j \in DOMAIN incoming : incoming[j] \in Buffers
    BY DEF OwnInv, FrameTypeOK, MaybeBuffer
  <1> QED
    BY ZenonT(30), <1>1 DEF Unheld, Queued

\* A step of the sender leaves what is past the stream in its order.
LEMMA PrefixKept ==
    ASSUME OwnInv, FlowTypeOK, PrefixInv, Keeps,
           handled' = handled, wbuf' = wbuf, incoming' = incoming, rbuf' = rbuf, rpc' = rpc
    PROVE  PrefixInv' /\ Busy' = Busy /\ Loaded' = Loaded /\ Passed' = Passed /\ BetweenReads' = BetweenReads
  <1>1. Busy' = Busy /\ Loaded' = Loaded /\ Passed' = Passed /\ BetweenReads' = BetweenReads
    BY DEF Busy, Loaded, Passed, BetweenReads
  <1>2. /\ Len(handled) \in Nat /\ Len(incoming) \in Nat /\ Len(written) \in Nat
        /\ Busy \in {0, 1} /\ Loaded \in {0, 1} /\ Passed \in Nat /\ Passed = Len(handled) + Busy + Len(incoming)
        /\ Loaded = 1 => rbuf # NoBuf
        /\ wbuf # NoBuf <=> Busy = 1
    BY FlowFacts, FramingAssumption DEF Passed, FramingAssumption
  <1>3. /\ wbuf # NoBuf => content'[wbuf] = content[wbuf]
        /\ \A j \in 1..Len(incoming) : content'[incoming[j]] = content[incoming[j]]
        /\ rbuf # NoBuf => content'[rbuf] = content[rbuf]
    BY ZenonT(30), HeldByLoops DEF Keeps
  <1>4. Agree(written', written, Len(written)) /\ Len(written) <= Len(written') /\ Len(written') \in Nat
    BY ZenonT(30) DEF Keeps, Agree
  <1>5. Passed + Loaded <= Len(written')
    <2>1. Passed + Loaded <= Len(written)
      BY Zenon DEF PrefixInv
    <2> QED
      BY <1>2, <1>4, <2>1
  <1>6. /\ \A i \in 1..Len(handled) : written'[i] = written[i]
        /\ Busy = 1 => written'[Len(handled) + 1] = written[Len(handled) + 1]
        /\ \A j \in 1..Len(incoming) : written'[Len(handled) + Busy + j] = written[Len(handled) + Busy + j]
        /\ Loaded = 1 => written'[Passed + 1] = written[Passed + 1]
    <2>1. Len(handled) + Busy + Len(incoming) + Loaded <= Len(written)
      BY ZenonT(30), <1>2 DEF PrefixInv
    <2>2. AgreePast(written', written, Len(handled), Busy, Len(incoming), Loaded)
      BY ZenonT(30), <1>2, <1>4, <2>1, PassedAgree
    <2> QED
      BY ZenonT(30), <1>2, <2>2 DEF AgreePast
  <1>7. \A i \in 1..Len(handled) : handled[i] = written'[i]
    BY ZenonT(30), <1>6 DEF PrefixInv
  <1>8. wbuf # NoBuf => content'[wbuf] = written'[Len(handled) + 1]
    BY ZenonT(30), <1>2, <1>3, <1>6 DEF PrefixInv
  <1>9. ASSUME NEW j \in 1..Len(incoming) PROVE content'[incoming[j]] = written'[Len(handled) + Busy + j]
    BY ZenonT(30), <1>3, <1>6 DEF PrefixInv
  <1>10. Loaded = 1 => content'[rbuf] = written'[Passed + 1]
    BY ZenonT(30), <1>2, <1>3, <1>6 DEF PrefixInv
  <1>11. PrefixInv'
    BY ZenonT(30), <1>1, <1>5, <1>7, <1>8, <1>9, <1>10 DEF PrefixInv
  <1> QED
    BY <1>1, <1>11

LEMMA PendingKept ==
    ASSUME NEW s \in Senders, PendingInv(s), UNCHANGED <<written, stream, rpc>>, Passed' = Passed, Loaded' = Loaded,
           spc[s] # "data", spc'[s] # "data"
    PROVE  PendingInv(s)'
  <1>1. BetweenWrites(s)' = BetweenWrites(s) /\ Unread' = Unread /\ BetweenReads' = BetweenReads
    BY DEF BetweenWrites, Unread, BetweenReads
  <1> QED
    BY ZenonT(30), <1>1 DEF PendingInv

\* A buffer that AcquireFrameBuffer handed out was with nobody.
LEMMA AcquireKeeps ==
    ASSUME OwnInv, FlowTypeOK, NEW b, NEW d \in Contents, Acquire(b, d), written' = written
    PROVE  b \in Buffers /\ Unheld(b) /\ Keeps /\ content' \in [Buffers -> Contents] /\ content'[b] = d
  <1>1. /\ b \in Buffers /\ Unheld(b) /\ DOMAIN content' = Buffers /\ content'[b] = d
        /\ \A c \in Buffers : c # b => content'[c] = content[c]
    BY ZenonT(30), AcquireFacts
  <1>2. content' \in [Buffers -> Contents]
    BY <1>1 DEF Acquire, FlowTypeOK
  <1>3. Keeps
    <2>1. Len(written') \in Nat /\ Len(written) <= Len(written') /\ \A i \in 1..Len(written) : written'[i] = written[i]
      BY DEF FlowTypeOK
    <2> QED
      BY ZenonT(30), <1>1, <2>1 DEF Keeps
  <1> QED
    BY <1>1, <1>2, <1>3

LEMMA KeepsAll ==
    ASSUME FlowTypeOK, content' = content, written' = written
    PROVE  Keeps
  BY DEF FlowTypeOK, Keeps

LEMMA SendFlows ==
    ASSUME OwnInv, NEW s \in Senders, Flow(s), (\E d \in Data : SendFrame(s, d)) \/ Encrypt(s) \/ SendRelease(s)
    PROVE  Flow(s)'
  <1> USE DEF Flow
  <1>1. /\ UNCHANGED <<written, stream, handled, wbuf, incoming, rbuf, rpc, cipher>> /\ spc[s] \in {"idle", "encrypt", "release"}
    BY ZenonT(60) DEF SendFrame, Encrypt, SendRelease, readVars
  <1>2. ASSUME Keeps, content' \in [Buffers -> Contents], sdata' \in [Senders -> Contents], spc'[s] # "data", PayloadInv(s)'
        PROVE  Flow(s)'
    <2>1. PrefixInv' /\ Passed' = Passed /\ Loaded' = Loaded
      BY ZenonT(30), <1>1, <1>2, PrefixKept
    <2>2. FlowTypeOK'
      BY <1>1, <1>2 DEF FlowTypeOK
    <2>3. spc[s] # "data"
      BY <1>1
    <2>4. PendingInv(s)'
      BY ZenonT(30), <1>1, <1>2, <2>1, <2>3, PendingKept
    <2> QED
      BY ZenonT(30), <1>2, <2>1, <2>2, <2>4
  <1>3. DOMAIN spc = Senders /\ DOMAIN sbuf = Senders /\ DOMAIN senc = Senders /\ DOMAIN sdata = Senders
    BY DEF OwnInv, FrameTypeOK
  <1>4. ASSUME NEW d \in Data, SendFrame(s, d) PROVE Flow(s)'
    <2>1. sdata' \in [Senders -> Contents] /\ sdata'[s] = d /\ d \in Contents
      BY <1>3, <1>4 DEF SendFrame, FlowTypeOK, Contents
    <2>2. CASE cipher = "none"
      <3>1. spc'[s] = "header" /\ content' = content
        BY <1>3, <1>4, <2>2 DEF SendFrame, poolVars
      <3>2. PayloadInv(s)'
        BY <1>1, <2>2, <3>1 DEF PayloadInv
      <3>3. Keeps /\ content' \in [Buffers -> Contents]
        BY <1>1, <3>1, KeepsAll DEF FlowTypeOK
      <3> QED
        BY <1>2, <2>1, <3>1, <3>2, <3>3
    <2>3. CASE cipher # "none"
      <3>1. PICK b \in Buffers : Acquire(b, d) /\ sbuf' = [sbuf EXCEPT ![s] = b] /\ spc' = [spc EXCEPT ![s] = "encrypt"]
        BY ZenonT(30), <1>4, <2>3 DEF SendFrame
      <3>2. Keeps /\ content' \in [Buffers -> Contents] /\ content'[b] = d
        BY ZenonT(30), <1>1, <2>1, <3>1, AcquireKeeps
      <3>3. spc'[s] = "encrypt" /\ sbuf'[s] = b
        BY <1>3, <3>1
      <3>4. PayloadInv(s)'
        BY <2>1, <3>2, <3>3 DEF PayloadInv
      <3> QED
        BY <1>2, <2>1, <3>2, <3>3, <3>4
    <2> QED
      BY <2>2, <2>3
  <1>5. CASE Encrypt(s)
    <2>1. spc[s] = "encrypt" /\ sdata' = sdata /\ sdata' \in [Senders -> Contents]
      BY ZenonT(30), <1>5 DEF Encrypt, FlowTypeOK
    <2>2. sbuf[s] \in Buffers /\ content[sbuf[s]] = sdata[s]
      BY ZenonT(30), <2>1 DEF PayloadInv
    <2>3. CASE Release({sbuf[s]}) /\ spc' = [spc EXCEPT ![s] = "idle"]
      <3>1. content' = content /\ spc'[s] = "idle"
        BY ZenonT(30), <1>3, <2>3 DEF Release
      <3>2. Keeps /\ content' \in [Buffers -> Contents] /\ PayloadInv(s)'
        BY ZenonT(30), <1>1, <3>1, KeepsAll DEF FlowTypeOK, PayloadInv
      <3> QED
        BY <1>2, <2>1, <3>1, <3>2
    <2>4. CASE cipher = "inplace" /\ senc' = [senc EXCEPT ![s] = sbuf[s]] /\ spc' = [spc EXCEPT ![s] = "header"] /\ UNCHANGED <<poolVars, sbuf>>
      <3>1. content' = content /\ spc'[s] = "header" /\ senc'[s] = sbuf[s]
        BY <1>3, <2>4 DEF poolVars
      <3>2. Keeps /\ content' \in [Buffers -> Contents]
        BY ZenonT(30), <1>1, <3>1, KeepsAll DEF FlowTypeOK
      <3>3. PayloadInv(s)'
        BY <1>1, <2>1, <2>2, <2>4, <3>1 DEF PayloadInv
      <3> QED
        BY ZenonT(30), <1>2, <2>1, <3>1, <3>2, <3>3
    <2>5. ASSUME cipher = "copy", NEW b \in Buffers, Acquire(b, content[sbuf[s]]), senc' = [senc EXCEPT ![s] = b],
                 spc' = [spc EXCEPT ![s] = "header"]
          PROVE  Flow(s)'
      <3>1. PICK d \in Contents : d = content[sbuf[s]]
        BY <2>2 DEF FlowTypeOK
      <3>2. Keeps /\ content' \in [Buffers -> Contents] /\ content'[b] = d
        BY ZenonT(30), <1>1, <2>5, <3>1, AcquireKeeps
      <3>3. spc'[s] = "header" /\ senc'[s] = b
        BY ZenonT(30), <1>3, <2>5
      <3>4. PayloadInv(s)'
        BY ZenonT(30), <1>1, <2>1, <2>2, <2>5, <3>1, <3>2, <3>3 DEF PayloadInv
      <3> QED
        BY <1>2, <2>1, <3>2, <3>3, <3>4
    <2> QED
      BY ZenonT(30), <1>5, <2>3, <2>4, <2>5 DEF Encrypt
  <1>6. CASE SendRelease(s)
    <2>1. content' = content /\ spc'[s] = "idle" /\ sdata' = sdata
      BY ZenonT(30), <1>3, <1>6 DEF SendRelease, Release
    <2>2. Keeps /\ content' \in [Buffers -> Contents] /\ PayloadInv(s)' /\ sdata' \in [Senders -> Contents]
      BY <1>1, <2>1, KeepsAll DEF FlowTypeOK, PayloadInv
    <2> QED
      BY <1>2, <2>1, <2>2
  <1> QED
    BY <1>4, <1>5, <1>6

\* The data of each unread frame is in the stream.
LEMMA DataIndex ==
    ASSUME NEW U \in Nat, NEW R \in {0, 1}, NEW n \in Nat, n = 2 * U - R \/ n = 2 * U - R + 1, NEW i \in 1..U
    PROVE  2 * i - R \in 1..n
  OBVIOUS

LEMMA WriteFlows ==
    ASSUME OwnInv, NEW s \in Senders, Flow(s), WriteHeader(s) \/ WriteData(s) \/ WriteFails(s)
    PROVE  Flow(s)'
  <1> USE DEF Flow
  <1>1. /\ UNCHANGED <<handled, wbuf, incoming, rbuf, rpc, cipher, content, sbuf, senc, sdata>> /\ spc[s] \in {"header", "data"}
    BY ZenonT(60) DEF WriteHeader, WriteData, WriteFails, readVars, poolVars
  <1>2. PICK p \in Contents : p = Payload(s) /\ p = sdata[s]
    BY ZenonT(30), <1>1 DEF PayloadInv, Payload, FlowTypeOK
  <1>3. PICK l \in {"data", "release"} : spc' = [spc EXCEPT ![s] = l] /\ spc'[s] = l
    <2>1. PICK l \in {"data", "release"} : spc' = [spc EXCEPT ![s] = l]
      BY ZenonT(60) DEF WriteHeader, WriteData, WriteFails
    <2>2. DOMAIN spc = Senders
      BY DEF OwnInv, FrameTypeOK
    <2> QED
      BY ZenonT(30), <2>1, <2>2
  <1>4. PayloadInv(s)'
    BY <1>1, <1>3 DEF PayloadInv
  <1>5. /\ Len(written) \in Nat /\ Len(stream) \in Nat /\ DOMAIN stream = 1..Len(stream) /\ DOMAIN written = 1..Len(written)
        /\ Unread \in Nat /\ BetweenReads \in {0, 1} /\ Passed \in Nat /\ Loaded \in {0, 1}
        /\ Unread = Len(written) - (Passed + Loaded)
    BY FlowFacts DEF Unread
  <1>6. ASSUME Keeps, FlowTypeOK', PendingInv(s)' PROVE Flow(s)'
    BY ZenonT(30), <1>1, <1>4, <1>6, PrefixKept
  <1>7. PICK P \in Nat, U \in Nat, R \in {0, 1} : P = Passed + Loaded /\ U = Unread /\ R = BetweenReads
    <2>1. Passed + Loaded \in Nat
      BY <1>5
    <2> QED
      BY ZenonT(30), <1>5, <2>1
  <1>8. Passed' + Loaded' = P /\ BetweenReads' = R
    BY <1>1, <1>7 DEF Passed, Loaded, Busy, BetweenReads
  <1>9. CASE WriteHeader(s)
    <2>1. stream' = Append(stream, <<"len", p>>) /\ written' = written /\ spc[s] = "header"
      BY ZenonT(30), <1>2, <1>9 DEF WriteHeader
    <2>2. FlowTypeOK'
      BY <1>1, <2>1 DEF FlowTypeOK
    <2>3. Keeps
      BY ZenonT(30), <1>1, <2>1, KeepsAll
    <2>4. spc'[s] = "data"
      BY ZenonT(30), <1>9, <2>1 DEF WriteHeader, OwnInv, FrameTypeOK
    <2>5. BetweenWrites(s) = 0 /\ BetweenWrites(s)' = 1 /\ Unread' = U
      BY ZenonT(30), <1>5, <1>7, <1>8, <2>1, <2>4 DEF BetweenWrites, Unread
    <2>6. ASSUME rpc # "ended" PROVE PendingInv(s)'
      <3>1. Len(stream) = 2 * U - R /\ \A i \in 1..U : stream[2 * i - R][2] = written[P + i]
        BY ZenonT(30), <1>7, <2>5, <2>6, Sums DEF PendingInv
      <3>2. Len(stream') = 2 * U - R + 1 /\ \A i \in 1..Len(stream) : stream'[i] = stream[i]
        <4>1. <<"len", p>> \in {"len", "data"} \X Contents
          OBVIOUS
        <4>2. Appends(stream', stream, <<"len", p>>)
          BY ZenonT(30), <2>1, <4>1, Appended DEF FlowTypeOK
        <4> QED
          BY ZenonT(30), <3>1, <4>2 DEF Appends
      <3>3. ASSUME NEW i \in 1..U PROVE stream'[2 * i - R][2] = written'[P + i]
        <4>1. PICK k \in 1..Len(stream) : k = 2 * i - R
          BY ZenonT(30), <1>5, <1>7, <3>1, DataIndex
        <4> QED
          BY <2>1, <3>1, <3>2, <4>1
      <3> QED
        BY ZenonT(30), <1>8, <2>5, <3>2, <3>3 DEF PendingInv
    <2>7. PendingInv(s)'
      BY <1>1, <2>6 DEF PendingInv
    <2> QED
      BY <1>6, <2>2, <2>3, <2>7
  <1>10. CASE WriteData(s)
    <2>1. stream' = Append(stream, <<"data", p>>) /\ written' = Append(written, p) /\ spc[s] = "data"
      BY ZenonT(30), <1>2, <1>10 DEF WriteData
    <2>2. FlowTypeOK'
      <3>1. <<"data", p>> \in {"len", "data"} \X Contents
        OBVIOUS
      <3> QED
        BY ZenonT(30), <1>1, <2>1, <3>1, Appended DEF FlowTypeOK
    <2>3. /\ Len(written') = Len(written) + 1 /\ written'[Len(written) + 1] = p
          /\ \A i \in 1..Len(written) : written'[i] = written[i]
      <3>1. Appends(written', written, p)
        BY ZenonT(30), <2>1, Appended DEF FlowTypeOK
      <3> QED
        BY ZenonT(30), <3>1 DEF Appends
    <2>4. Keeps
      <3>1. Len(written') \in Nat /\ Len(written) <= Len(written')
        <4>1. Len(written) + 1 \in Nat /\ Len(written) <= Len(written) + 1
          BY ZenonT(30), <1>5, Successors
        <4> QED
          BY ZenonT(30), <2>3, <4>1
      <3> QED
        BY ZenonT(30), <1>1, <2>3, <3>1 DEF Keeps
    <2>5. spc'[s] = "release"
      BY <1>10, <2>1 DEF WriteData, OwnInv, FrameTypeOK
    <2>6. BetweenWrites(s) = 1 /\ BetweenWrites(s)' = 0 /\ Unread' = U + 1
      BY <1>5, <1>7, <1>8, <2>1, <2>3, <2>5 DEF BetweenWrites, Unread
    <2>7. ASSUME rpc # "ended" PROVE PendingInv(s)'
      <3>1. Len(stream) = 2 * U - R + 1 /\ \A i \in 1..U : stream[2 * i - R][2] = written[P + i]
        BY <1>5, <1>7, <2>6, <2>7 DEF PendingInv
      <3>2. /\ Len(stream') = 2 * U - R + 2 /\ \A i \in 1..Len(stream) : stream'[i] = stream[i]
            /\ stream'[2 * U - R + 2] = <<"data", p>>
        <4>1. /\ Len(stream') = Len(stream) + 1 /\ \A i \in 1..Len(stream) : stream'[i] = stream[i]
              /\ stream'[Len(stream) + 1] = <<"data", p>>
          BY <1>5, <2>1 DEF FlowTypeOK
        <4>2. Len(stream) + 1 = 2 * U - R + 2
          BY <1>7, <3>1
        <4> QED
          BY ZenonT(30), <4>1, <4>2
      <3>3. ASSUME NEW i \in 1..U PROVE stream'[2 * i - R][2] = written'[P + i]
        <4>1. PICK k \in 1..Len(stream) : k = 2 * i - R
          BY ZenonT(30), <1>5, <1>7, <3>1, DataIndex
        <4>2. P + i \in 1..Len(written)
          BY <1>5, <1>7
        <4> QED
          BY ZenonT(30), <2>3, <3>1, <3>2, <4>1, <4>2
      <3>4. stream'[2 * (U + 1) - R][2] = written'[P + (U + 1)]
        <4>1. 2 * (U + 1) - R = 2 * U - R + 2 /\ P + (U + 1) = Len(written) + 1
          BY <1>5, <1>7
        <4> QED
          BY <2>3, <3>2, <4>1
      <3>5. \A i \in 1..(U + 1) : i \in 1..U \/ i = U + 1
        BY <1>7
      <3>6. \A i \in 1..(U + 1) : stream'[2 * i - R][2] = written'[P + i]
        BY ZenonT(30), <3>3, <3>4, <3>5
      <3>7. Len(stream') = 2 * (U + 1) - R + 0
        BY <1>7, <3>2
      <3> QED
        BY ZenonT(30), <1>8, <2>6, <3>6, <3>7 DEF PendingInv
    <2>8. PendingInv(s)'
      BY <1>1, <2>7 DEF PendingInv
    <2> QED
      BY <1>6, <2>2, <2>4, <2>8
  <1>11. CASE WriteFails(s)
    <2>1. rpc = "ended" /\ written' = written /\ stream' = stream
      BY ZenonT(30), <1>11 DEF WriteFails
    <2>2. FlowTypeOK' /\ Keeps
      BY <1>1, <2>1, KeepsAll DEF FlowTypeOK
    <2>3. PendingInv(s)'
      BY <1>1, <2>1 DEF PendingInv
    <2> QED
      BY <1>6, <2>2, <2>3
  <1> QED
    BY <1>9, <1>10, <1>11

\* What the read loop does leaves a sender's payload alone.
LEMMA PayloadKept ==
    ASSUME NEW s \in Senders, PayloadInv(s), UNCHANGED sendVars, cipher' = cipher,
           \A b \in Buffers : Has(s, b) => content'[b] = content[b]
    PROVE  PayloadInv(s)'
  BY ZenonT(60) DEF PayloadInv, Has, sendVars

\* The read loop may drop its frame.
LEMMA PrefixShrinks ==
    ASSUME OwnInv, FlowTypeOK, PrefixInv, Keeps, Loaded' = 0, handled' = handled, wbuf' = wbuf, incoming' = incoming
    PROVE  PrefixInv' /\ Passed' = Passed
  <1>1. Busy' = Busy /\ Passed' = Passed
    BY DEF Busy, Passed
  <1>2. /\ Len(handled) \in Nat /\ Len(incoming) \in Nat /\ Len(written) \in Nat
        /\ Busy \in {0, 1} /\ Loaded \in {0, 1} /\ Passed \in Nat /\ Passed = Len(handled) + Busy + Len(incoming)
        /\ wbuf # NoBuf <=> Busy = 1
    BY FlowFacts DEF Passed
  <1>3. /\ wbuf # NoBuf => content'[wbuf] = content[wbuf]
        /\ \A j \in 1..Len(incoming) : content'[incoming[j]] = content[incoming[j]]
    BY ZenonT(30), HeldByLoops DEF Keeps
  <1>4. Agree(written', written, Len(written)) /\ Len(written) <= Len(written') /\ Len(written') \in Nat
    BY ZenonT(30) DEF Keeps, Agree
  <1>5. Passed + 0 <= Len(written')
    <2>1. Passed + Loaded <= Len(written)
      BY Zenon DEF PrefixInv
    <2> QED
      BY <1>2, <1>4, <2>1
  <1>6. /\ \A i \in 1..Len(handled) : written'[i] = written[i]
        /\ Busy = 1 => written'[Len(handled) + 1] = written[Len(handled) + 1]
        /\ \A j \in 1..Len(incoming) : written'[Len(handled) + Busy + j] = written[Len(handled) + Busy + j]
    <2>1. Len(handled) + Busy + Len(incoming) + Loaded <= Len(written)
      BY ZenonT(30), <1>2 DEF PrefixInv
    <2>2. AgreePast(written', written, Len(handled), Busy, Len(incoming), Loaded)
      BY ZenonT(30), <1>2, <1>4, <2>1, PassedAgree
    <2> QED
      BY ZenonT(30), <1>2, <2>2 DEF AgreePast
  <1>7. \A i \in 1..Len(handled) : handled[i] = written'[i]
    BY ZenonT(30), <1>6 DEF PrefixInv
  <1>8. wbuf # NoBuf => content'[wbuf] = written'[Len(handled) + 1]
    BY ZenonT(30), <1>2, <1>3, <1>6 DEF PrefixInv
  <1>9. ASSUME NEW j \in 1..Len(incoming) PROVE content'[incoming[j]] = written'[Len(handled) + Busy + j]
    BY ZenonT(30), <1>3, <1>6 DEF PrefixInv
  <1>10. 0 # 1
    OBVIOUS
  <1>11. PrefixInv'
    BY ZenonT(30), <1>1, <1>5, <1>7, <1>8, <1>9, <1>10 DEF PrefixInv
  <1> QED
    BY <1>1, <1>11

\* The read loop ends.
LEMMA EndFlows ==
    ASSUME OwnInv, NEW s \in Senders, Flow(s), rpc' = "ended", content' = content, written' = written,
           stream' \in Seq({"len", "data"} \X Contents), UNCHANGED sendVars, cipher' = cipher,
           handled' = handled, wbuf' = wbuf, incoming' = incoming
    PROVE  Flow(s)'
  <1>1. Loaded' = 0
    BY DEF Loaded
  <1>2. FlowTypeOK'
    BY DEF Flow, FlowTypeOK, sendVars
  <1>3. PrefixInv'
    BY ZenonT(30), <1>1, KeepsAll, PrefixShrinks DEF Flow
  <1>4. PendingInv(s)'
    BY ZenonT(30) DEF PendingInv
  <1>5. PayloadInv(s)'
    BY ZenonT(30), PayloadKept DEF Flow
  <1> QED
    BY ZenonT(30), <1>2, <1>3, <1>4, <1>5 DEF Flow

\* Taking the first element off the stream.
LEMMA TailFacts ==
    ASSUME FlowTypeOK, stream # <<>>
    PROVE  /\ Tail(stream) \in Seq({"len", "data"} \X Contents) /\ Len(stream) \in Nat /\ Len(stream) > 0
           /\ Len(Tail(stream)) = Len(stream) - 1 /\ \A i \in 1..(Len(stream) - 1) : Tail(stream)[i] = stream[i + 1]
           /\ Head(stream) = stream[1] /\ Head(stream)[2] \in Contents
  <1>1. stream \in Seq({"len", "data"} \X Contents)
    BY DEF FlowTypeOK
  <1>2. /\ Tail(stream) \in Seq({"len", "data"} \X Contents) /\ Len(stream) \in Nat /\ Len(stream) > 0
        /\ Len(Tail(stream)) = Len(stream) - 1 /\ \A i \in 1..(Len(stream) - 1) : Tail(stream)[i] = stream[i + 1]
        /\ Head(stream) = stream[1] /\ Head(stream) \in {"len", "data"} \X Contents
    BY <1>1
  <1>3. Head(stream)[2] \in Contents
    BY <1>2
  <1> QED
    BY <1>2, <1>3

LEMMA ReadHeaderFlows ==
    ASSUME OwnInv, NEW s \in Senders, Flow(s), ReadHeader
    PROVE  Flow(s)'
  <1>1. /\ rpc = "header" /\ stream # <<>> /\ stream' = Tail(stream)
        /\ UNCHANGED sendVars /\ UNCHANGED <<cipher, incoming, wbuf, written, handled>>
    BY ZenonT(30) DEF ReadHeader
  <1>2. CASE rpc' = "ended" /\ UNCHANGED <<poolVars, rbuf>>
    <2>1. stream' \in Seq({"len", "data"} \X Contents) /\ content' = content
      BY <1>1, <1>2, TailFacts DEF Flow, poolVars
    <2> QED
      BY ZenonT(30), <1>1, <1>2, <2>1, EndFlows
  <1>3. ASSUME NEW b \in Buffers, Acquire(b, 0), rpc' = "data" PROVE Flow(s)'
    <2>1. PICK d \in Contents : d = 0
      BY DEF Contents
    <2>2. Unheld(b) /\ Keeps /\ content' \in [Buffers -> Contents] /\ content'[b] = d
      BY ZenonT(30), <1>1, <1>3, <2>1, AcquireKeeps DEF Flow
    <2>3. Loaded = 0 /\ Loaded' = 0 /\ BetweenReads = 0 /\ BetweenReads' = 1
      BY <1>1, <1>3 DEF Loaded, BetweenReads
    <2>4. PrefixInv' /\ Passed' = Passed
      BY ZenonT(30), <1>1, <2>2, <2>3, PrefixShrinks DEF Flow
    <2>5. PayloadInv(s)'
      <3>1. \A c \in Buffers : Has(s, c) => content'[c] = content[c]
        BY ZenonT(30), <2>2 DEF Keeps, Unheld
      <3> QED
        BY ZenonT(30), <1>1, <3>1, PayloadKept DEF Flow
    <2>6. FlowTypeOK'
      BY <1>1, <2>2, TailFacts DEF Flow, FlowTypeOK, sendVars
    <2>7. PICK U \in Nat, P \in Nat, W \in {0, 1} : U = Unread /\ P = Passed + Loaded /\ W = BetweenWrites(s)
      <3>1. Unread \in Nat /\ Passed \in Nat /\ Loaded \in {0, 1}
        BY FlowFacts DEF Flow
      <3>2. Passed + Loaded \in Nat /\ BetweenWrites(s) \in {0, 1}
        BY <3>1 DEF BetweenWrites
      <3> QED
        BY ZenonT(30), <3>1, <3>2
    <2>8. BetweenWrites(s)' = W /\ Passed' + Loaded' = P /\ Unread' = U
      BY ZenonT(30), <1>1, <2>3, <2>4, <2>7 DEF BetweenWrites, Unread, sendVars
    <2>9. Len(stream) = 2 * U - 0 + W /\ \A i \in 1..U : stream[2 * i - 0][2] = written[P + i]
      BY ZenonT(30), <1>1, <2>3, <2>7 DEF Flow, PendingInv
    <2>10. /\ Len(stream') = Len(stream) - 1 /\ \A i \in 1..(Len(stream) - 1) : stream'[i] = stream[i + 1]
      BY ZenonT(30), <1>1, TailFacts DEF Flow
    <2>11. Len(stream') = 2 * U - 1 + W
      BY <2>7, <2>9, <2>10
    <2>12. ASSUME NEW i \in 1..U PROVE stream'[2 * i - 1][2] = written'[P + i]
      <3>1. PICK k \in 1..(Len(stream) - 1) : k = 2 * i - 1 /\ k + 1 = 2 * i - 0
        <4>1. 2 * i - 1 \in 1..(2 * U - 0 + W - 1) /\ 2 * i - 1 + 1 = 2 * i - 0
          BY <2>7
        <4>2. 2 * i - 1 \in 1..(Len(stream) - 1)
          BY <2>9, <4>1
        <4> QED
          BY ZenonT(30), <4>1, <4>2
      <3> QED
        BY ZenonT(30), <1>1, <2>9, <2>10, <3>1
    <2>13. PendingInv(s)'
      BY ZenonT(30), <2>3, <2>8, <2>11, <2>12 DEF PendingInv
    <2> QED
      BY ZenonT(30), <2>4, <2>5, <2>6, <2>13 DEF Flow
  <1> QED
    BY ZenonT(30), <1>2, <1>3 DEF ReadHeader

LEMMA ReadDataFlows ==
    ASSUME OwnInv, NEW s \in Senders, Flow(s), ReadData
    PROVE  Flow(s)'
  <1>1. /\ rpc = "data" /\ stream # <<>> /\ stream' = Tail(stream) /\ rpc' \in {"deliver", "decrypt"}
        /\ content' = [content EXCEPT ![rbuf] = Head(stream)[2]] /\ rbuf' = rbuf
        /\ UNCHANGED sendVars /\ UNCHANGED <<cipher, incoming, wbuf, written, handled>>
    BY ZenonT(30) DEF ReadData
  <1>2. rbuf \in Buffers
    BY <1>1 DEF OwnInv, FrameTypeOK, FrameControl, MaybeBuffer
  <1>3. Loaded = 0 /\ Loaded' = 1 /\ BetweenReads = 1 /\ BetweenReads' = 0 /\ Passed' = Passed /\ Busy' = Busy
    BY <1>1 DEF Loaded, BetweenReads, Passed, Busy
  <1>4. PICK x \in Contents : x = Head(stream)[2] /\ x = stream[1][2]
    BY ZenonT(30), <1>1, TailFacts DEF Flow
  <1>5. /\ content' \in [Buffers -> Contents] /\ content'[rbuf] = x
        /\ \A b \in Buffers : b # rbuf => content'[b] = content[b]
    BY <1>1, <1>2, <1>4 DEF Flow, FlowTypeOK
  <1>6. FlowTypeOK'
    BY <1>1, <1>5, TailFacts DEF Flow, FlowTypeOK, sendVars
  <1>7. PayloadInv(s)'
    <2>1. \A b \in Buffers : Has(s, b) => content'[b] = content[b]
      BY ZenonT(30), <1>5 DEF OwnInv, OneOwner
    <2> QED
      BY ZenonT(30), <1>1, <2>1, PayloadKept DEF Flow
  <1>8. PICK U \in Nat, P \in Nat, W \in {0, 1} : U = Unread /\ P = Passed /\ W = BetweenWrites(s)
    <2>1. Unread \in Nat /\ Passed \in Nat
      BY FlowFacts DEF Flow
    <2>2. BetweenWrites(s) \in {0, 1}
      BY DEF BetweenWrites
    <2> QED
      BY ZenonT(30), <2>1, <2>2
  <1>9. P + 0 = P /\ Len(written) \in Nat /\ Len(stream) \in Nat /\ Len(stream) > 0 /\ U = Len(written) - (P + 0)
    BY <1>1, <1>3, <1>8, FlowFacts, TailFacts DEF Flow, Unread
  <1>10. Len(stream) = 2 * U - 1 + W /\ \A i \in 1..U : stream[2 * i - 1][2] = written[P + 0 + i]
    BY ZenonT(30), <1>1, <1>3, <1>8 DEF Flow, PendingInv
  <1>11. U >= 1 /\ U - 1 \in Nat
    BY <1>8, <1>9, <1>10
  <1>12. x = written[P + 1]
    <2>1. 1 \in 1..U /\ 2 * 1 - 1 = 1 /\ P + 0 + 1 = P + 1
      BY <1>8, <1>11
    <2> QED
      BY ZenonT(30), <1>4, <1>10, <2>1
  <1>13. PrefixInv'
    <2>1. /\ wbuf # NoBuf => content'[wbuf] = content[wbuf]
          /\ \A j \in 1..Len(incoming) : content'[incoming[j]] = content[incoming[j]]
      <3>1. DOMAIN incoming = 1..Len(incoming)
        BY DEF OwnInv, FrameTypeOK
      <3> QED
        BY ZenonT(30), <1>2, <1>5, <3>1, HeldByLoops DEF OwnInv, OneOwner, Queued
    <2>2. P + 1 <= Len(written)
      BY <1>8, <1>9, <1>11
    <2> QED
      BY ZenonT(30), <1>1, <1>3, <1>5, <1>8, <1>12, <2>1, <2>2 DEF Flow, PrefixInv
  <1>14. BetweenWrites(s)' = W /\ Unread' = U - 1
    <2>1. BetweenWrites(s)' = W
      BY ZenonT(30), <1>1, <1>8 DEF BetweenWrites, sendVars
    <2>2. Unread' = Len(written) - (P + 1)
      BY ZenonT(30), <1>1, <1>3, <1>8 DEF Unread
    <2>3. Len(written) - (P + 1) = U - 1
      BY <1>8, <1>9
    <2> QED
      BY <2>1, <2>2, <2>3
  <1>15. Len(stream') = Len(stream) - 1 /\ \A i \in 1..(Len(stream) - 1) : stream'[i] = stream[i + 1]
    BY ZenonT(30), <1>1, TailFacts DEF Flow
  <1>16. Len(stream') = 2 * (U - 1) - 0 + W
    BY <1>8, <1>10, <1>15
  <1>17. ASSUME NEW i \in 1..(U - 1) PROVE stream'[2 * i - 0][2] = written'[P + 1 + i]
    <2>1. /\ 2 * i - 0 \in 1..(Len(stream) - 1) /\ 2 * i - 0 + 1 = 2 * (i + 1) - 1
          /\ i + 1 \in 1..U /\ P + 0 + (i + 1) = P + 1 + i
      BY <1>8, <1>10
    <2> QED
      BY ZenonT(30), <1>1, <1>10, <1>15, <2>1
  <1>18. PendingInv(s)'
    BY ZenonT(30), <1>3, <1>8, <1>14, <1>16, <1>17 DEF PendingInv
  <1> QED
    BY ZenonT(30), <1>6, <1>7, <1>13, <1>18 DEF Flow

\* Frames are counted in another place, and the stream is left alone.
LEMMA PendingSame ==
    ASSUME NEW s \in Senders, PendingInv(s), UNCHANGED <<written, stream, spc>>, rpc # "ended",
           Passed' + Loaded' = Passed + Loaded, BetweenReads' = BetweenReads
    PROVE  PendingInv(s)'
  <1>1. Unread' = Unread /\ BetweenWrites(s)' = BetweenWrites(s)
    BY ZenonT(30) DEF Unread, BetweenWrites
  <1> QED
    BY ZenonT(30), <1>1 DEF PendingInv

LEMMA DecryptFlows ==
    ASSUME OwnInv, NEW s \in Senders, Flow(s), Decrypt
    PROVE  Flow(s)'
  <1>1. rpc = "decrypt" /\ UNCHANGED sendVars /\ UNCHANGED <<cipher, stream, incoming, wbuf, written, handled>>
    BY ZenonT(30) DEF Decrypt
  <1>2. CASE Release({rbuf}) /\ rpc' = "ended" /\ rbuf' = NoBuf
    <2>1. content' = content /\ stream' \in Seq({"len", "data"} \X Contents)
      BY <1>1, <1>2 DEF Release, Flow, FlowTypeOK
    <2> QED
      BY ZenonT(30), <1>1, <1>2, <2>1, EndFlows
  <1>3. ASSUME Keeps, content' \in [Buffers -> Contents], rpc' = "deliver", rbuf' \in Buffers, content'[rbuf'] = content[rbuf]
        PROVE  Flow(s)'
    <2>1. Loaded = 1 /\ Loaded' = 1 /\ BetweenReads = 0 /\ BetweenReads' = 0 /\ Passed' = Passed /\ Busy' = Busy
      BY <1>1, <1>3 DEF Loaded, BetweenReads, Passed, Busy
    <2>2. FlowTypeOK'
      BY <1>1, <1>3 DEF Flow, FlowTypeOK, sendVars
    <2>3. /\ wbuf # NoBuf => content'[wbuf] = content[wbuf]
          /\ \A j \in 1..Len(incoming) : content'[incoming[j]] = content[incoming[j]]
      BY ZenonT(30), <1>3, HeldByLoops DEF Keeps
    <2>4. PrefixInv'
      BY ZenonT(30), <1>1, <1>3, <2>1, <2>3 DEF Flow, PrefixInv
    <2>5. PayloadInv(s)'
      <3>1. \A b \in Buffers : Has(s, b) => content'[b] = content[b]
        BY ZenonT(30), <1>3 DEF Keeps, Unheld
      <3> QED
        BY ZenonT(30), <1>1, <3>1, PayloadKept DEF Flow
    <2>6. rpc # "ended" /\ spc' = spc
      BY <1>1 DEF sendVars
    <2>7. PendingInv(s)'
      BY ZenonT(30), <1>1, <2>1, <2>6, PendingSame DEF Flow
    <2> QED
      BY ZenonT(30), <2>2, <2>4, <2>5, <2>7 DEF Flow
  <1>4. rbuf \in Buffers
    BY <1>1 DEF OwnInv, FrameTypeOK, FrameControl, MaybeBuffer
  <1>5. CASE rpc' = "deliver" /\ UNCHANGED <<poolVars, rbuf>>
    <2>1. content' = content /\ rbuf' = rbuf
      BY <1>5 DEF poolVars
    <2>2. Keeps /\ content' \in [Buffers -> Contents]
      BY <1>1, <2>1, KeepsAll DEF Flow, FlowTypeOK
    <2> QED
      BY ZenonT(30), <1>3, <1>4, <1>5, <2>1, <2>2
  <1>6. ASSUME NEW b \in Available \ {rbuf}, rpc' = "deliver", rbuf' = b, content' = [content EXCEPT ![b] = content[rbuf]]
        PROVE  Flow(s)'
    <2>1. b \in Buffers /\ Unheld(b)
      BY <1>6, AvailableIsUnheld
    <2>2. /\ content' \in [Buffers -> Contents] /\ content'[b] = content[rbuf]
          /\ \A c \in Buffers : c # b => content'[c] = content[c]
      BY <1>4, <1>6, <2>1 DEF Flow, FlowTypeOK
    <2>3. Keeps
      <3>1. Len(written') \in Nat /\ Len(written) <= Len(written') /\ \A i \in 1..Len(written) : written'[i] = written[i]
        BY <1>1 DEF Flow, FlowTypeOK
      <3> QED
        BY ZenonT(30), <2>1, <2>2, <3>1 DEF Keeps
    <2> QED
      BY ZenonT(30), <1>3, <1>6, <2>1, <2>2, <2>3
  <1> QED
    BY ZenonT(30), <1>2, <1>5, <1>6 DEF Decrypt

\* A frame goes from one place of the receiving side to the next.
Shifts ==
    /\ content' = content /\ UNCHANGED sendVars /\ UNCHANGED <<cipher, stream, written>>
    /\ handled' \in Seq(Contents) /\ BetweenReads' = BetweenReads
    /\ Passed' + Loaded' = Passed + Loaded

LEMMA ShiftFlows ==
    ASSUME NEW s \in Senders, Flow(s), Shifts, rpc = "ended" => rpc' = "ended", PrefixInv'
    PROVE  Flow(s)'
  <1>1. FlowTypeOK'
    BY DEF Flow, FlowTypeOK, Shifts, sendVars
  <1>2. PayloadInv(s)'
    BY ZenonT(30), PayloadKept DEF Flow, Shifts
  <1>3. PendingInv(s)'
    <2>1. CASE rpc' = "ended"
      BY ZenonT(30), <2>1 DEF PendingInv
    <2>2. CASE rpc # "ended"
      <3>1. spc' = spc
        BY DEF Shifts, sendVars
      <3> QED
        BY ZenonT(30), <2>2, <3>1, PendingSame DEF Flow, Shifts
    <2> QED
      BY <2>1, <2>2
  <1> QED
    BY ZenonT(30), <1>1, <1>2, <1>3 DEF Flow

LEMMA DeliverFlows ==
    ASSUME OwnInv, NEW s \in Senders, Flow(s), Deliver
    PROVE  Flow(s)'
  <1>1. rpc = "deliver" /\ UNCHANGED sendVars /\ UNCHANGED <<cipher, stream, wbuf, written, handled>>
    BY ZenonT(30) DEF Deliver
  <1>2. CASE Release({rbuf}) /\ rpc' = "ended" /\ UNCHANGED incoming
    <2>1. content' = content /\ stream' \in Seq({"len", "data"} \X Contents)
      BY <1>1, <1>2 DEF Release, Flow, FlowTypeOK
    <2> QED
      BY ZenonT(30), <1>1, <1>2, <2>1, EndFlows
  <1>3. CASE incoming' = Append(incoming, rbuf) /\ rpc' \in {"ended", "header"} /\ UNCHANGED poolVars
    <2>1. content' = content /\ rbuf \in Buffers
      BY <1>1, <1>3 DEF poolVars, OwnInv, FrameTypeOK, FrameControl, MaybeBuffer
    <2>2. Loaded = 1 /\ Loaded' = 0 /\ BetweenReads = 0 /\ BetweenReads' = 0 /\ Busy' = Busy
      BY <1>1, <1>3 DEF Loaded, BetweenReads, Busy
    <2>3. PICK h \in Nat, n \in Nat, B \in {0, 1} : h = Len(handled) /\ n = Len(incoming) /\ B = Busy
      BY ZenonT(30), FlowFacts DEF Flow
    <2>4. /\ Len(incoming') = n + 1 /\ incoming'[n + 1] = rbuf
          /\ \A j \in 1..n : incoming'[j] = incoming[j]
      BY <1>3, <2>1, <2>3 DEF OwnInv, FrameTypeOK
    <2>5. Passed = h + B + n /\ Passed' = h + B + (n + 1)
      BY ZenonT(30), <1>1, <2>2, <2>3, <2>4 DEF Passed
    <2>6. h + B + (n + 1) + 0 = h + B + n + 1 /\ h + B + (n + 1) = h + B + n + 1
      BY <2>3
    <2>7. Shifts
      BY ZenonT(30), <1>1, <2>1, <2>2, <2>5, <2>6 DEF Shifts, Flow, FlowTypeOK
    <2>8. content[rbuf] = written[h + B + n + 1] /\ h + B + n + 1 <= Len(written)
      BY ZenonT(30), <2>2, <2>5 DEF Flow, PrefixInv
    <2>9. ASSUME NEW j \in 1..(n + 1) PROVE content[incoming'[j]] = written[h + B + j]
      <3>1. CASE j \in 1..n
        BY ZenonT(30), <2>3, <2>4, <3>1 DEF Flow, PrefixInv
      <3>2. CASE j = n + 1
        BY ZenonT(30), <2>4, <2>6, <2>8, <3>2
      <3> QED
        BY <2>3, <3>1, <3>2
    <2>10. h + B + (n + 1) + 0 <= Len(written) /\ 0 # 1
      BY <2>6, <2>8
    <2>11. PrefixInv'
      BY ZenonT(30), <1>1, <2>1, <2>2, <2>3, <2>4, <2>5, <2>9, <2>10 DEF Flow, PrefixInv
    <2>12. rpc # "ended"
      BY <1>1
    <2> QED
      BY ZenonT(30), <2>7, <2>11, <2>12, ShiftFlows
  <1> QED
    BY ZenonT(30), <1>2, <1>3 DEF Deliver

LEMMA TakeFlows ==
    ASSUME OwnInv, NEW s \in Senders, Flow(s), Take
    PROVE  Flow(s)'
  <1>1. /\ wbuf = NoBuf /\ incoming # <<>> /\ wbuf' = Head(incoming) /\ incoming' = Tail(incoming)
        /\ UNCHANGED sendVars /\ UNCHANGED <<cipher, stream, written, handled>>
        /\ content' = content /\ rpc' = rpc /\ rbuf' = rbuf
    BY ZenonT(30) DEF Take, poolVars, readVars
  <1>2. PICK h \in Nat, n \in Nat : h = Len(handled) /\ n = Len(incoming)
    BY ZenonT(30), FlowFacts DEF Flow
  <1>3. /\ n >= 1 /\ n - 1 \in Nat /\ Len(incoming') = n - 1 /\ wbuf' = incoming[1] /\ wbuf' \in Buffers
        /\ \A j \in 1..(n - 1) : incoming'[j] = incoming[j + 1]
    BY ZenonT(30), <1>1, <1>2, Popped DEF OwnInv, FrameTypeOK
  <1>4. wbuf' # NoBuf
    BY <1>3, FramingAssumption DEF FramingAssumption
  <1>5. Busy = 0 /\ Busy' = 1 /\ Loaded' = Loaded /\ BetweenReads' = BetweenReads
    BY <1>1, <1>4 DEF Busy, Loaded, BetweenReads
  <1>6. Passed = h + 0 + n /\ Passed' = h + 1 + (n - 1)
    BY ZenonT(30), <1>1, <1>2, <1>3, <1>5 DEF Passed
  <1>7. h + 1 + (n - 1) = h + 0 + n /\ h + 0 + 1 = h + 1 /\ 1 \in 1..n
    BY <1>2, <1>3
  <1>8. Passed' = Passed
    BY ZenonT(30), <1>6, <1>7
  <1>9. Shifts
    BY ZenonT(30), <1>1, <1>5, <1>8 DEF Shifts, Flow, FlowTypeOK
  <1>10. content[wbuf'] = written[h + 1]
    BY ZenonT(30), <1>2, <1>3, <1>5, <1>7 DEF Flow, PrefixInv
  <1>11. ASSUME NEW j \in 1..(n - 1) PROVE content[incoming'[j]] = written[h + 1 + j]
    <2>1. j + 1 \in 1..n /\ h + 0 + (j + 1) = h + 1 + j
      BY <1>2, <1>3
    <2> QED
      BY ZenonT(30), <1>2, <1>3, <1>5, <2>1 DEF Flow, PrefixInv
  <1>12. PrefixInv'
    BY ZenonT(30), <1>1, <1>2, <1>3, <1>5, <1>8, <1>10, <1>11 DEF Flow, PrefixInv
  <1> QED
    BY ZenonT(30), <1>1, <1>9, <1>12, ShiftFlows

LEMMA ProcessFlows ==
    ASSUME OwnInv, NEW s \in Senders, Flow(s), ProcessFrame
    PROVE  Flow(s)'
  <1>1. /\ wbuf # NoBuf /\ wbuf' = NoBuf /\ handled' = Append(handled, content[wbuf])
        /\ UNCHANGED sendVars /\ UNCHANGED <<cipher, stream, written, incoming>>
        /\ content' = content /\ rpc' = rpc /\ rbuf' = rbuf
    BY ZenonT(30) DEF ProcessFrame, Release, readVars
  <1>2. wbuf \in Buffers /\ content[wbuf] \in Contents
    BY ZenonT(30), <1>1 DEF OwnInv, FrameTypeOK, MaybeBuffer, Flow, FlowTypeOK
  <1>3. PICK h \in Nat, n \in Nat : h = Len(handled) /\ n = Len(incoming)
    BY ZenonT(30), FlowFacts DEF Flow
  <1>4. /\ handled' \in Seq(Contents) /\ Len(handled') = h + 1 /\ handled'[h + 1] = content[wbuf]
        /\ \A i \in 1..h : handled'[i] = handled[i]
    BY <1>1, <1>2, <1>3 DEF Flow, FlowTypeOK
  <1>5. Busy = 1 /\ Busy' = 0 /\ Loaded' = Loaded /\ BetweenReads' = BetweenReads
    BY <1>1 DEF Busy, Loaded, BetweenReads
  <1>6. Passed = h + 1 + n /\ Passed' = h + 1 + 0 + n
    BY ZenonT(30), <1>1, <1>3, <1>4, <1>5 DEF Passed
  <1>7. h + 1 + 0 + n = h + 1 + n
    BY <1>3
  <1>8. Passed' = Passed
    BY ZenonT(30), <1>6, <1>7
  <1>9. Shifts
    BY ZenonT(30), <1>1, <1>4, <1>5, <1>8 DEF Shifts
  <1>10. ASSUME NEW i \in 1..(h + 1) PROVE handled'[i] = written[i]
    <2>1. CASE i \in 1..h
      BY ZenonT(30), <1>3, <1>4, <2>1 DEF Flow, PrefixInv
    <2>2. CASE i = h + 1
      BY ZenonT(30), <1>1, <1>3, <1>4, <2>2 DEF Flow, PrefixInv
    <2> QED
      BY <1>3, <2>1, <2>2
  <1>11. ASSUME NEW j \in 1..n PROVE content[incoming[j]] = written[h + 1 + 0 + j]
    <2>1. h + 1 + 0 + j = h + 1 + j
      BY <1>3
    <2> QED
      BY ZenonT(30), <1>3, <1>5, <2>1 DEF Flow, PrefixInv
  <1>12. PrefixInv'
    BY ZenonT(30), <1>1, <1>3, <1>4, <1>5, <1>8, <1>10, <1>11 DEF Flow, PrefixInv
  <1> QED
    BY ZenonT(30), <1>1, <1>9, <1>12, ShiftFlows

LEMMA ReadFailsFlows ==
    ASSUME OwnInv, NEW s \in Senders, Flow(s), ReadFails
    PROVE  Flow(s)'
  <1>1. /\ rpc' = "ended" /\ content' = content /\ UNCHANGED sendVars
        /\ UNCHANGED <<cipher, stream, incoming, wbuf, written, handled>>
    BY ZenonT(30) DEF ReadFails, Release
  <1>2. stream' \in Seq({"len", "data"} \X Contents)
    BY <1>1 DEF Flow, FlowTypeOK
  <1> QED
    BY ZenonT(30), <1>1, <1>2, EndFlows

LEMMA IdleFlows ==
    ASSUME OwnInv, NEW s \in Senders, Flow(s), Cancel \/ UNCHANGED frameVars
    PROVE  Flow(s)'
  <1>1. /\ content' = content /\ UNCHANGED sendVars /\ rbuf' = rbuf /\ rpc' = rpc
        /\ UNCHANGED <<cipher, stream, incoming, wbuf, written, handled>>
    BY ZenonT(30) DEF Cancel, frameVars, sendVars, poolVars, readVars
  <1>2. PrefixInv' /\ Loaded' = Loaded /\ Passed' = Passed /\ BetweenReads' = BetweenReads
    BY ZenonT(30), <1>1, KeepsAll, PrefixKept DEF Flow
  <1>3. Shifts
    BY ZenonT(30), <1>1, <1>2 DEF Shifts, Flow, FlowTypeOK
  <1> QED
    BY ZenonT(30), <1>1, <1>2, <1>3, ShiftFlows

LEMMA FlowStep == OwnInv /\ FlowInv /\ [FrameNext]_frameVars => FlowInv'
  <1> SUFFICES ASSUME OwnInv, FlowInv, [FrameNext]_frameVars, NEW s \in Senders, Senders = {s} PROVE Flow(s)'
    BY ZenonT(30) DEF FlowInv
  <1>1. Flow(s)
    BY ZenonT(30) DEF FlowInv
  <1>2. CASE (\E d \in Data : SendFrame(s, d)) \/ Encrypt(s) \/ SendRelease(s)
    BY ZenonT(30), <1>1, <1>2, SendFlows
  <1>3. CASE WriteHeader(s) \/ WriteData(s) \/ WriteFails(s)
    BY ZenonT(30), <1>1, <1>3, WriteFlows
  <1>4. CASE ReadHeader \/ ReadData \/ ReadFails \/ Decrypt \/ Deliver
    BY ZenonT(30), <1>1, <1>4, ReadHeaderFlows, ReadDataFlows, ReadFailsFlows, DecryptFlows, DeliverFlows
  <1>5. CASE Take \/ ProcessFrame
    BY ZenonT(30), <1>1, <1>5, TakeFlows, ProcessFlows
  <1>6. CASE Cancel \/ UNCHANGED frameVars
    BY ZenonT(30), <1>1, <1>6, IdleFlows
  <1>7. \A t \in Senders : t = s
    BY Zenon
  <1> QED
    BY ZenonT(30), <1>2, <1>3, <1>4, <1>5, <1>6, <1>7 DEF FrameNext

\* A frame buffer has one owner at a time, and with one sender what the worker
\* dispatches is what SendFrame was given, in order: the framer, the cipher, the
\* pool and the channel between the read loop and the worker pass every frame on
\* unchanged, for any number of buffers, payloads and frames.
THEOREM FramesAreSound == FrameSpec => []FramesSound
  <1>1. OwnInv /\ FlowInv => FramesIntact
    <2> SUFFICES ASSUME OwnInv, FlowInv, NEW s \in Senders, Senders = {s}
                 PROVE  Len(handled) <= Len(written) /\ \A i \in DOMAIN handled : handled[i] = written[i]
      BY ZenonT(30) DEF FramesIntact
    <2>1. Flow(s)
      BY ZenonT(30) DEF FlowInv
    <2>2. /\ Len(handled) \in Nat /\ Len(incoming) \in Nat /\ Len(written) \in Nat /\ Busy \in {0, 1} /\ Loaded \in {0, 1}
          /\ DOMAIN handled = 1..Len(handled) /\ Passed = Len(handled) + Busy + Len(incoming)
      BY ZenonT(30), <2>1, FlowFacts DEF Flow, Passed
    <2>3. /\ Passed + Loaded <= Len(written)
          /\ \A i \in 1..Len(handled) : handled[i] = written[i]
      BY ZenonT(30), <2>1 DEF Flow, PrefixInv
    <2> QED
      BY <2>2, <2>3
  <1>2. BufferOwnedOnce /\ FramesIntact => FramesSound
    BY ZenonT(30) DEF FramesSound
  <1> QED
    BY <1>1, <1>2, BuffersOwned, OwnInit, OwnStep, FlowInit, FlowStep, PTL DEF FrameSpec
=============================================================================
