------------------------------ MODULE SSHProofs ------------------------------
(***************************************************************************)
(* The safety properties of the SSH client and how it is set up, of the    *)
(* tunnels over it and the certificate authority, proved for any number of *)
(* calls, connections, callers and options.                                *)
(***************************************************************************)
EXTENDS Integers, SSHClient, Tunnel, SSHCA, SSHSetup, TLAPS

---------------------------------------------------------------------------
(* The client.  Whoever makes an SFTP client holds sftpMu and found none   *)
(* cached; and while a Stream has not returned, a scanner that ended read  *)
(* everything, or lost the connection or the context.                      *)

ClientSpec == ClientInit /\ [][ClientNext]_clientVars

ClientTypes ==
    /\ pc \in [Ops -> {"idle", "lock", "make", "select", "session", "init", "workers", "done"}]
    /\ help \in [Ops -> {"off", "busy", "ok", "error", "wg", "wait"}]
    /\ chan \in [Ops -> {"none", "open", "closed"}] /\ expired \in [Ops -> BOOLEAN]
    /\ scan \in [Ops -> [Pipes -> {"off", "read", "send", "done", "lost"}]]
    /\ src \in [Ops -> [Pipes -> Int]] /\ report \in [Ops -> {"none", "true", "false"}]

SftpInv ==
    /\ sftpOpen \subseteq {sftp} /\ (sftp = Nobody => sftpOpen = {})
    /\ \A o \in Ops : pc[o] = "make" => mu = o /\ sftp = Nobody

Ended(o, p) ==
    \/ scan[o][p] = "done" /\ (src[o][p] = 0 \/ ~Up)
    \/ scan[o][p] = "lost" /\ expired[o] = TRUE

StreamInv(o) ==
    /\ pc[o] # "idle" => Client
    /\ report[o] = "true" => kind[o] = "stream"
    /\ kind[o] = "stream" =>
         /\ pc[o] \in {"idle", "session", "workers", "done"}
         /\ pc[o] = "workers" =>
              /\ chan[o] = "open"
              /\ \A p \in Pipes : scan[o][p] \in {"done", "lost"} => Ended(o, p)
              /\ help[o] \in {"wait", "ok", "error"} => \A p \in Pipes : scan[o][p] \in {"done", "lost"}
         /\ report[o] = "true" => pc[o] = "done" /\ \A p \in Pipes : Ended(o, p)

ClientInv == ClientTypes /\ SftpInv /\ \A o \in Ops : StreamInv(o)

\* What an operation and its goroutines hold.
Own(o) == <<pc[o], help[o], chan[o], expired[o], scan[o], src[o], report[o]>>

LEMMA ClientStart == ClientInit => ClientInv
  <1> SUFFICES ASSUME ClientInit PROVE ClientInv
    BY Zenon
  <1>1. ClientTypes
    BY ClientAssumption DEF ClientInit, ClientTypes
  <1>2. SftpInv
    BY Zenon DEF ClientInit, SftpInv
  <1>3. \A o \in Ops : StreamInv(o)
    BY Zenon DEF ClientInit, StreamInv
  <1> QED
    BY Zenon, <1>1, <1>2, <1>3 DEF ClientInv

\* Steps that leave an operation alone, and the connection if there is a client,
\* or close it.
LEMMA StreamFrame ==
    ASSUME NEW o \in Ops, StreamInv(o), Own(o)' = Own(o), kind' = kind,
           Client => dial' = dial /\ (tcp' = tcp \/ tcp' = "closed")
    PROVE  StreamInv(o)'
  <1>1. /\ pc'[o] = pc[o] /\ help'[o] = help[o] /\ chan'[o] = chan[o] /\ expired'[o] = expired[o]
        /\ scan'[o] = scan[o] /\ src'[o] = src[o] /\ report'[o] = report[o]
    BY Zenon DEF Own
  <1>2. CASE Client
    <2>1. Client' /\ (~Up => ~Up')
      BY Zenon, <1>2 DEF Client, Up
    <2>2. \A p \in Pipes : Ended(o, p) => Ended(o, p)'
      BY ZenonT(30), <1>1, <2>1 DEF Ended
    <2> QED
      BY ZenonT(30), <1>1, <2>1, <2>2 DEF StreamInv
  <1>3. CASE ~Client
    BY ZenonT(30), <1>1, <1>3 DEF StreamInv
  <1> QED
    BY Zenon, <1>2, <1>3

LEMMA SftpFrame ==
    ASSUME SftpInv, UNCHANGED sftpVars, \A o \in Ops : pc'[o] = "make" => pc[o] = "make"
    PROVE  SftpInv'
  BY ZenonT(30) DEF SftpInv, sftpVars

\* Dial, Close, the keep-alive loop and the network leave the operations alone.
LEMMA ConnectionKeeps ==
    ASSUME ClientInv, UNCHANGED <<kind, opVars, scan, src, report>>, SftpInv',
           Client => dial' = dial /\ (tcp' = tcp \/ tcp' = "closed")
    PROVE  ClientInv'
  <1>1. /\ pc' = pc /\ help' = help /\ chan' = chan /\ expired' = expired
        /\ scan' = scan /\ src' = src /\ report' = report /\ kind' = kind
    BY ZenonT(30) DEF opVars
  <1>2. ClientTypes'
    BY ZenonT(30), <1>1 DEF ClientInv, ClientTypes
  <1>3. ASSUME NEW o \in Ops PROVE StreamInv(o)'
    <2>1. Own(o)' = Own(o)
      BY ZenonT(30), <1>1 DEF Own
    <2> QED
      BY ZenonT(30), <1>1, <2>1, StreamFrame DEF ClientInv
  <1> QED
    BY Zenon, <1>2, <1>3 DEF ClientInv

\* A step of one operation leaves the others and the connection alone.
LEMMA OperationKeeps ==
    ASSUME ClientInv, NEW o \in Ops, UNCHANGED <<dialVars, netVars>>,
           \A q \in Ops : q # o => Own(q)' = Own(q),
           ClientTypes', SftpInv', StreamInv(o)'
    PROVE  ClientInv'
  <1>1. kind' = kind /\ dial' = dial /\ tcp' = tcp
    BY ZenonT(30) DEF dialVars, netVars
  <1>2. ASSUME NEW q \in Ops, q # o PROVE StreamInv(q)'
    BY ZenonT(30), <1>1, <1>2, StreamFrame DEF ClientInv
  <1>3. \A q \in Ops : StreamInv(q)'
    BY ZenonT(30), <1>2
  <1> QED
    BY ZenonT(30), <1>3 DEF ClientInv

\* Enter, Select and InitCmd move an operation along, and may start its goroutine.
LEMMA EnterKeeps ==
    ASSUME ClientInv, NEW o \in Ops, Enter(o) \/ Select(o) \/ InitCmd(o)
    PROVE  ClientInv'
  <1>1. /\ UNCHANGED <<dialVars, netVars>> /\ UNCHANGED sftpVars
        /\ chan' = chan /\ expired' = expired /\ scan' = scan /\ src' = src /\ report' = report
    BY ZenonT(30) DEF Enter, Select, InitCmd, streamVars
  <1>2. PICK a \in {"lock", "select", "session", "done"} :
          /\ pc' = [pc EXCEPT ![o] = a]
          /\ kind[o] = "stream" => a \in {"session", "done"}
    <2>1. CASE Enter(o)
      BY ZenonT(30), <2>1 DEF Enter, Finish
    <2>2. CASE Select(o)
      BY Zenon, <2>2 DEF Select, Finish
    <2>3. CASE InitCmd(o)
      BY Zenon, <2>3 DEF InitCmd, Finish, ClientInv, StreamInv
    <2> QED
      BY Zenon, <2>1, <2>2, <2>3
  <1>3. PICK b \in {"off", "busy", "ok", "error", "wg", "wait"} : help' = [help EXCEPT ![o] = b]
    <2>1. help' = help => help' = [help EXCEPT ![o] = help[o]]
      BY Zenon DEF ClientInv, ClientTypes
    <2>2. help[o] \in {"off", "busy", "ok", "error", "wg", "wait"}
      BY Zenon DEF ClientInv, ClientTypes
    <2>3. \/ help' = help \/ help' = [help EXCEPT ![o] = "busy"] \/ help' = [help EXCEPT ![o] = "off"]
      BY Zenon DEF Enter, Select, InitCmd
    <2> QED
      BY Zenon, <2>1, <2>2, <2>3
  <1>4. pc[o] # "workers" /\ pc[o] # "done" /\ Client
    BY Zenon DEF Enter, Select, InitCmd, ClientInv, StreamInv
  <1>5. ClientTypes'
    BY Zenon, <1>1, <1>2, <1>3 DEF ClientInv, ClientTypes
  <1>6. /\ pc'[o] = a /\ \A q \in Ops : q # o => pc'[q] = pc[q] /\ help'[q] = help[q]
    BY Zenon, <1>2, <1>3 DEF ClientInv, ClientTypes
  <1>7. SftpInv'
    BY Zenon, <1>1, <1>6, SftpFrame DEF ClientInv
  <1>8. StreamInv(o)'
    <2>1. Client' /\ kind' = kind
      BY ZenonT(30), <1>1, <1>4 DEF Client, dialVars
    <2>2. report[o] # "true"
      BY Zenon, <1>4 DEF ClientInv, StreamInv
    <2> QED
      BY Zenon, <1>1, <1>2, <1>6, <2>1, <2>2 DEF StreamInv
  <1>9. \A q \in Ops : q # o => Own(q)' = Own(q)
    BY ZenonT(30), <1>1, <1>6 DEF Own
  <1> QED
    BY ZenonT(30), <1>1, <1>5, <1>7, <1>8, <1>9, OperationKeeps

\* GetSftp: with sftpMu free nobody is making a client.
LEMMA GetSftpKeeps ==
    ASSUME ClientInv, NEW o \in Ops, GetSftpLock(o) \/ GetSftpMake(o)
    PROVE  ClientInv'
  <1>1. /\ UNCHANGED <<dialVars, netVars>> /\ help' = help
        /\ chan' = chan /\ expired' = expired /\ scan' = scan /\ src' = src /\ report' = report
    BY ZenonT(30) DEF GetSftpLock, GetSftpMake, streamVars
  <1>2. PICK a \in {"make", "done"} : pc' = [pc EXCEPT ![o] = a]
    BY Zenon DEF GetSftpLock, GetSftpMake, Finish
  <1>3. pc[o] \in {"lock", "make"}
    BY Zenon DEF GetSftpLock, GetSftpMake
  <1>4. pc'[o] = a /\ \A q \in Ops : q # o => pc'[q] = pc[q]
    BY Zenon, <1>2 DEF ClientInv, ClientTypes
  <1>5. ClientTypes'
    BY Zenon, <1>1, <1>2 DEF ClientInv, ClientTypes
  <1>6. SftpInv'
    <2>1. CASE GetSftpLock(o)
      <3>1. mu = Nobody /\ sftp' = sftp /\ sftpOpen' = sftpOpen
        BY Zenon, <2>1 DEF GetSftpLock
      <3>2. \A q \in Ops : pc[q] # "make"
        BY Zenon, <3>1, ClientAssumption DEF ClientInv, SftpInv
      <3>3. pc'[o] = "make" => mu' = o /\ sftp = Nobody
        BY Zenon, <2>1, <1>4 DEF GetSftpLock, Finish, ClientInv, ClientTypes
      <3> QED
        BY Zenon, <1>4, <3>1, <3>2, <3>3 DEF ClientInv, SftpInv
    <2>2. CASE GetSftpMake(o)
      <3>1. mu = o /\ sftp = Nobody /\ sftpOpen = {}
        BY Zenon, <2>2 DEF GetSftpMake, ClientInv, SftpInv
      <3>2. \A q \in Ops : pc'[q] # "make"
        BY Zenon, <1>4, <2>2, <3>1 DEF GetSftpMake, Finish, ClientInv, SftpInv, ClientTypes
      <3>3. \/ sftp' = sftp /\ sftpOpen' = sftpOpen
            \/ sftp' = o /\ sftpOpen' = sftpOpen \cup {o}
        BY ZenonT(30), <2>2 DEF GetSftpMake
      <3> QED
        BY Zenon, <3>1, <3>2, <3>3, ClientAssumption DEF SftpInv
    <2> QED
      BY Zenon, <2>1, <2>2
  <1>7. StreamInv(o)'
    <2>1. kind' = kind /\ dial' = dial
      BY ZenonT(30), <1>1 DEF dialVars
    <2>2. Client /\ kind[o] # "stream" /\ report[o] # "true"
      BY Zenon, <1>3 DEF ClientInv, StreamInv
    <2> QED
      BY Zenon, <1>1, <2>1, <2>2 DEF StreamInv, Client
  <1>8. \A q \in Ops : q # o => Own(q)' = Own(q)
    BY ZenonT(30), <1>1, <1>4 DEF Own
  <1> QED
    BY ZenonT(30), <1>1, <1>5, <1>6, <1>7, <1>8, OperationKeeps

\* A context that ends, and the goroutines of DialContext and of a command, which
\* no Stream has.
LEMMA HelperKeeps ==
    ASSUME ClientInv, NEW o \in Ops, Expire(o) \/ DialHelper(o) \/ CmdHelper(o)
    PROVE  ClientInv'
  <1>1. /\ UNCHANGED <<dialVars, netVars>> /\ UNCHANGED sftpVars
        /\ pc' = pc /\ scan' = scan /\ src' = src /\ report' = report
    BY ZenonT(30) DEF Expire, DialHelper, CmdHelper, streamVars
  <1>2. ClientTypes' /\ \A q \in Ops : q # o => help'[q] = help[q] /\ chan'[q] = chan[q] /\ expired'[q] = expired[q]
    <2>1. CASE Expire(o)
      BY Zenon, <1>1, <2>1 DEF Expire, ClientInv, ClientTypes
    <2>2. CASE DialHelper(o)
      BY Zenon, <1>1, <2>2 DEF DialHelper, ClientInv, ClientTypes
    <2>3. CASE CmdHelper(o)
      BY Zenon, <1>1, <2>3 DEF CmdHelper, ClientInv, ClientTypes
    <2> QED
      BY Zenon, <2>1, <2>2, <2>3
  <1>3. SftpInv'
    BY ZenonT(30), <1>1, SftpFrame DEF ClientInv
  <1>4. \A q \in Ops : q # o => Own(q)' = Own(q)
    BY ZenonT(30), <1>1, <1>2 DEF Own
  <1>5. StreamInv(o)'
    <2>1. kind' = kind /\ dial' = dial /\ tcp' = tcp
      BY ZenonT(30), <1>1 DEF dialVars, netVars
    <2>2. CASE kind[o] # "stream"
      BY ZenonT(30), <1>1, <2>1, <2>2 DEF ClientInv, StreamInv, Client
    <2>3. CASE kind[o] = "stream"
      <3>1. Expire(o)
        BY Zenon, <2>3 DEF DialHelper, CmdHelper
      <3>2. help' = help /\ chan' = chan /\ expired'[o] = TRUE
        BY Zenon, <3>1 DEF Expire, ClientInv, ClientTypes
      <3>3. \A p \in Pipes : Ended(o, p) => Ended(o, p)'
        BY ZenonT(30), <1>1, <2>1, <3>2 DEF Ended, Up
      <3> QED
        BY ZenonT(30), <1>1, <2>1, <3>2, <3>3 DEF ClientInv, StreamInv, Client
    <2> QED
      BY Zenon, <2>2, <2>3
  <1> QED
    BY ZenonT(30), <1>1, <1>2, <1>3, <1>4, <1>5, OperationKeeps

LEMMA OpenSessionKeeps ==
    ASSUME ClientInv, NEW o \in Ops, OpenSession(o)
    PROVE  ClientInv'
  <1>1. /\ UNCHANGED <<dialVars, netVars>> /\ UNCHANGED sftpVars /\ pc[o] = "session"
        /\ expired' = expired /\ src' = src /\ report' = report
    BY ZenonT(30) DEF OpenSession
  <1>2. PICK ok \in BOOLEAN :
         IF ok
         THEN /\ chan' = [chan EXCEPT ![o] = "open"]
              /\ pc' = [pc EXCEPT ![o] = IF kind[o] = "stream" THEN "workers" ELSE "init"]
              /\ scan' = [scan EXCEPT ![o] = [p \in Pipes |->
                            IF kind[o] = "stream" THEN "read" ELSE "off"]]
              /\ help' = [help EXCEPT ![o] = IF kind[o] = "stream" THEN "wg" ELSE "off"]
         ELSE /\ pc' = [pc EXCEPT ![o] = "done"]
              /\ \E c \in {"none", "closed"} : chan' = [chan EXCEPT ![o] = c]
              /\ UNCHANGED <<help, scan>>
    <2>1. Answers \subseteq BOOLEAN
      BY ZenonT(30) DEF Answers
    <2> QED
      BY ZenonT(30), <2>1 DEF OpenSession, Finish
  <1>3. /\ ClientTypes'
        /\ \A q \in Ops : q # o => /\ pc'[q] = pc[q] /\ help'[q] = help[q]
                                   /\ chan'[q] = chan[q] /\ scan'[q] = scan[q]
        /\ pc'[o] # "make" /\ pc'[o] # "idle"
        /\ kind[o] = "stream" => pc'[o] \in {"workers", "done"}
        /\ kind[o] = "stream" /\ pc'[o] = "workers" =>
             chan'[o] = "open" /\ help'[o] = "wg" /\ \A p \in Pipes : scan'[o][p] = "read"
    <2>1. CASE ok = TRUE /\ kind[o] = "stream"
      <3>1. PICK t \in [Pipes -> {"read"}] : scan' = [scan EXCEPT ![o] = t]
        BY ZenonT(30), <1>2, <2>1
      <3>2. /\ chan' = [chan EXCEPT ![o] = "open"] /\ pc' = [pc EXCEPT ![o] = "workers"]
            /\ help' = [help EXCEPT ![o] = "wg"]
        BY Zenon, <1>2, <2>1
      <3> QED
        BY <1>1, <3>1, <3>2 DEF ClientInv, ClientTypes
    <2>2. CASE ok = TRUE /\ kind[o] # "stream"
      <3>1. PICK t \in [Pipes -> {"off"}] : scan' = [scan EXCEPT ![o] = t]
        BY ZenonT(30), <1>2, <2>2
      <3>2. /\ chan' = [chan EXCEPT ![o] = "open"] /\ pc' = [pc EXCEPT ![o] = "init"]
            /\ help' = [help EXCEPT ![o] = "off"]
        BY Zenon, <1>2, <2>2
      <3> QED
        BY <1>1, <2>2, <3>1, <3>2 DEF ClientInv, ClientTypes
    <2>3. CASE ok = FALSE
      <3>1. /\ pc' = [pc EXCEPT ![o] = "done"] /\ help' = help /\ scan' = scan
            /\ \E c \in {"none", "closed"} : chan' = [chan EXCEPT ![o] = c]
        BY ZenonT(30), <1>2, <2>3
      <3> QED
        BY Zenon, <1>1, <3>1 DEF ClientInv, ClientTypes
    <2> QED
      BY ZenonT(30), <2>1, <2>2, <2>3
  <1>4. SftpInv'
    BY ZenonT(30), <1>1, <1>3, SftpFrame DEF ClientInv
  <1>5. \A q \in Ops : q # o => Own(q)' = Own(q)
    BY ZenonT(30), <1>1, <1>3 DEF Own
  <1>6. StreamInv(o)'
    <2>1. kind' = kind /\ dial' = dial
      BY ZenonT(30), <1>1 DEF dialVars
    <2>2. Client' /\ report[o] # "true"
      BY Zenon, <1>1, <2>1 DEF ClientInv, StreamInv, Client
    <2> QED
      BY Zenon, <1>1, <1>3, <2>1, <2>2 DEF StreamInv
  <1> QED
    BY ZenonT(30), <1>1, <1>3, <1>4, <1>5, <1>6, OperationKeeps

\* The goroutine that waits for the scanners, and then for the session.
LEMMA WaitKeeps ==
    ASSUME ClientInv, NEW o \in Ops, WaitScanners(o) \/ WaitSession(o)
    PROVE  ClientInv'
  <1>1. /\ UNCHANGED <<dialVars, netVars>> /\ UNCHANGED sftpVars /\ pc' = pc /\ chan' = chan
        /\ expired' = expired /\ scan' = scan /\ src' = src /\ report' = report
    BY ZenonT(30) DEF WaitScanners, WaitSession, streamVars
  <1>2. PICK b \in {"wait", "ok", "error"} : help' = [help EXCEPT ![o] = b]
    BY Zenon DEF WaitScanners, WaitSession
  <1>3. ClientTypes' /\ \A q \in Ops : q # o => help'[q] = help[q]
    BY Zenon, <1>1, <1>2 DEF ClientInv, ClientTypes
  <1>4. SftpInv'
    BY ZenonT(30), <1>1, SftpFrame DEF ClientInv
  <1>5. \A q \in Ops : q # o => Own(q)' = Own(q)
    BY ZenonT(30), <1>1, <1>3 DEF Own
  <1>6. StreamInv(o)'
    <2>1. kind' = kind /\ dial' = dial /\ tcp' = tcp
      BY ZenonT(30), <1>1 DEF dialVars, netVars
    <2>2. help[o] = "wait" \/ \A p \in Pipes : scan[o][p] \in {"done", "lost"}
      BY ZenonT(30) DEF WaitScanners, WaitSession
    <2>3. kind[o] = "stream" /\ pc[o] = "workers" => \A p \in Pipes : scan[o][p] \in {"done", "lost"}
      BY Zenon, <2>2 DEF ClientInv, StreamInv
    <2>4. \A p \in Pipes : Ended(o, p) => Ended(o, p)'
      BY ZenonT(30), <1>1, <2>1 DEF Ended, Up
    <2> QED
      BY ZenonT(30), <1>1, <2>1, <2>3, <2>4 DEF ClientInv, StreamInv, Client
  <1> QED
    BY ZenonT(30), <1>1, <1>3, <1>4, <1>5, <1>6, OperationKeeps

\* A Stream reports true when both scanners have ended.
LEMMA StreamReturnsKeeps ==
    ASSUME ClientInv, NEW o \in Ops, StreamReturns(o)
    PROVE  ClientInv'
  <1>1. /\ UNCHANGED <<dialVars, netVars>> /\ UNCHANGED sftpVars /\ kind[o] = "stream" /\ pc[o] = "workers"
        /\ help' = help /\ expired' = expired /\ scan' = scan /\ src' = src
        /\ pc' = [pc EXCEPT ![o] = "done"] /\ chan' = [chan EXCEPT ![o] = "closed"]
    BY ZenonT(30) DEF StreamReturns, Finish
  <1>2. \/ help[o] \in {"ok", "error"} /\ report' = [report EXCEPT ![o] = "true"]
        \/ report' = [report EXCEPT ![o] = "false"]
    BY ZenonT(30) DEF StreamReturns
  <1>3. /\ ClientTypes' /\ pc'[o] = "done" /\ (report'[o] = "true" => help[o] \in {"ok", "error"})
        /\ \A q \in Ops : q # o => pc'[q] = pc[q] /\ chan'[q] = chan[q] /\ report'[q] = report[q]
    BY ZenonT(30), <1>1, <1>2 DEF ClientInv, ClientTypes
  <1>4. SftpInv'
    BY ZenonT(30), <1>1, <1>3, SftpFrame DEF ClientInv
  <1>5. \A q \in Ops : q # o => Own(q)' = Own(q)
    BY ZenonT(30), <1>1, <1>3 DEF Own
  <1>6. StreamInv(o)'
    <2>1. kind' = kind /\ dial' = dial /\ tcp' = tcp
      BY ZenonT(30), <1>1 DEF dialVars, netVars
    <2>2. Client'
      BY Zenon, <1>1, <2>1 DEF ClientInv, StreamInv, Client
    <2>3. report'[o] = "true" => \A p \in Pipes : Ended(o, p)
      BY Zenon, <1>1, <1>3 DEF ClientInv, StreamInv
    <2>4. \A p \in Pipes : Ended(o, p) => Ended(o, p)'
      BY ZenonT(30), <1>1, <2>1 DEF Ended, Up
    <2> QED
      BY Zenon, <1>1, <1>3, <2>1, <2>2, <2>3, <2>4 DEF StreamInv
  <1> QED
    BY ZenonT(30), <1>1, <1>3, <1>4, <1>5, <1>6, OperationKeeps

\* A scanner ends with its pipe, with the connection or with the context.
LEMMA ScannerKeeps ==
    ASSUME ClientInv, NEW o \in Ops, NEW p \in Pipes, ScannerNext(o, p)
    PROVE  ClientInv'
  <1>1. /\ UNCHANGED <<dialVars, netVars>> /\ UNCHANGED sftpVars /\ report' = report
        /\ pc' = pc /\ help' = help /\ chan' = chan /\ expired' = expired
    BY ZenonT(30) DEF ScannerNext, ScanRead, ScanSend, opVars
  <1>2. PICK v \in {"send", "done", "read", "lost"} :
          /\ scan' = [scan EXCEPT ![o][p] = v]
          /\ v = "done" => src' = src /\ (src[o][p] = 0 \/ ~Up \/ chan[o] = "closed")
          /\ v = "lost" => src' = src /\ (expired[o] = TRUE \/ pc[o] = "done")
    <2>1. expired[o] \in BOOLEAN
      BY Zenon DEF ClientInv, ClientTypes
    <2>2. CASE ScanRead(o, p)
      <3>1. \/ scan' = [scan EXCEPT ![o][p] = "send"]
            \/ scan' = [scan EXCEPT ![o][p] = "done"] /\ src' = src /\ (src[o][p] = 0 \/ ~Up \/ chan[o] = "closed")
        BY ZenonT(30), <2>2 DEF ScanRead
      <3> QED
        BY ZenonT(30), <3>1
    <2>3. CASE ScanSend(o, p)
      <3>1. \/ scan' = [scan EXCEPT ![o][p] = "read"]
            \/ scan' = [scan EXCEPT ![o][p] = "lost"] /\ src' = src /\ (expired[o] = TRUE \/ pc[o] = "done")
        BY ZenonT(30), <2>1, <2>3 DEF ScanSend
      <3> QED
        BY ZenonT(30), <3>1
    <2> QED
      BY ZenonT(30), <2>2, <2>3 DEF ScannerNext
  <1>3. src' = src \/ src' = [src EXCEPT ![o][p] = @ - 1]
    BY ZenonT(30) DEF ScannerNext, ScanRead, ScanSend
  <1>4. scan[o][p] \in {"read", "send"}
    BY Zenon DEF ScannerNext, ScanRead, ScanSend
  <1>5. /\ ClientTypes' /\ scan'[o][p] = v
        /\ \A r \in Pipes : r # p => scan'[o][r] = scan[o][r] /\ src'[o][r] = src[o][r]
        /\ \A q \in Ops : q # o => scan'[q] = scan[q] /\ src'[q] = src[q]
    <2>1. /\ scan'[o][p] = v /\ \A r \in Pipes : r # p => scan'[o][r] = scan[o][r]
          /\ \A q \in Ops : q # o => scan'[q] = scan[q]
          /\ scan' \in [Ops -> [Pipes -> {"off", "read", "send", "done", "lost"}]]
      BY Zenon, <1>2 DEF ClientInv, ClientTypes
    <2>2. /\ src' \in [Ops -> [Pipes -> Int]] /\ \A r \in Pipes : r # p => src'[o][r] = src[o][r]
          /\ \A q \in Ops : q # o => src'[q] = src[q]
      BY SMTT(30), <1>3 DEF ClientInv, ClientTypes
    <2> QED
      BY ZenonT(30), <1>1, <2>1, <2>2 DEF ClientInv, ClientTypes
  <1>6. SftpInv'
    BY ZenonT(30), <1>1, SftpFrame DEF ClientInv
  <1>7. \A q \in Ops : q # o => Own(q)' = Own(q)
    BY ZenonT(30), <1>1, <1>5 DEF Own
  <1>8. StreamInv(o)'
    <2>1. kind' = kind /\ dial' = dial /\ tcp' = tcp
      BY ZenonT(30), <1>1 DEF dialVars, netVars
    <2>2. CASE kind[o] # "stream"
      BY ZenonT(30), <1>1, <2>1, <2>2 DEF ClientInv, StreamInv, Client
    <2>3. CASE kind[o] = "stream"
      <3>1. report[o] # "true"
        BY ZenonT(30), <1>4, <2>3 DEF ClientInv, StreamInv, Ended
      <3>2. pc[o] = "workers" => help[o] \notin {"wait", "ok", "error"}
        BY Zenon, <1>4, <2>3 DEF ClientInv, StreamInv
      <3>3. \A r \in Pipes : r # p /\ Ended(o, r) => Ended(o, r)'
        BY ZenonT(30), <1>1, <1>5, <2>1 DEF Ended, Up
      <3>4. pc[o] = "workers" /\ v \in {"done", "lost"} => Ended(o, p)'
        <4>1. pc[o] = "workers" => chan[o] = "open"
          BY Zenon, <2>3 DEF ClientInv, StreamInv
        <4> QED
          BY ZenonT(30), <1>1, <1>2, <1>5, <2>1, <4>1 DEF Ended, Up
      <3>5. pc[o] = "workers" => \A r \in Pipes : scan'[o][r] \in {"done", "lost"} => Ended(o, r)'
        BY Zenon, <1>5, <2>3, <3>3, <3>4 DEF ClientInv, StreamInv
      <3> QED
        BY ZenonT(30), <1>1, <2>1, <2>3, <3>1, <3>2, <3>5 DEF ClientInv, StreamInv, Client
    <2> QED
      BY Zenon, <2>2, <2>3
  <1> QED
    BY ZenonT(30), <1>1, <1>5, <1>6, <1>7, <1>8, OperationKeeps

\* Dial, the network and the keep-alive loop, Close, and the reader of a Stream.
LEMMA ClientStep == ClientInv /\ [ClientNext]_clientVars => ClientInv'
  <1> SUFFICES ASSUME ClientInv, [ClientNext]_clientVars PROVE ClientInv'
    BY Zenon
  <1>1. ASSUME UNCHANGED <<kind, opVars, scan, src, report>>, UNCHANGED sftpVars,
               Client => dial' = dial /\ (tcp' = tcp \/ tcp' = "closed")
        PROVE  ClientInv'
    <2>1. pc' = pc
      BY ZenonT(30), <1>1 DEF opVars
    <2>2. SftpInv'
      BY ZenonT(30), <1>1, <2>1, SftpFrame DEF ClientInv
    <2> QED
      BY ZenonT(30), <1>1, <2>2, ConnectionKeeps
  <1>2. CASE DialNext \/ Break \/ Hang
    <2>1. UNCHANGED <<kind, opVars, scan, src, report>> /\ UNCHANGED sftpVars
      BY ZenonT(30), <1>2 DEF DialNext, DialChecks, DialTransport, Handshake, Break, Hang, dialVars, streamVars
    <2>2. Client => dial' = dial /\ (tcp' = tcp \/ tcp' = "closed")
      BY Zenon, <1>2 DEF DialNext, DialChecks, DialTransport, Handshake, Break, Hang, dialVars, Client
    <2> QED
      BY ZenonT(30), <1>1, <2>1, <2>2
  <1>3. CASE KeepAliveTick \/ KeepAliveStops \/ KeepAliveAnswer \/ UNCHANGED clientVars
    <2>1. UNCHANGED <<kind, opVars, scan, src, report>> /\ UNCHANGED sftpVars /\ dial' = dial /\ tcp' = tcp
      BY ZenonT(30), <1>3 DEF KeepAliveTick, KeepAliveStops, KeepAliveAnswer, clientVars, dialVars, netVars, streamVars
    <2> QED
      BY ZenonT(30), <1>1, <2>1
  <1>4. ASSUME NEW k \in CloseCallers, CloseStart(k) \/ CloseConn(k) PROVE ClientInv'
    <2>1. /\ UNCHANGED <<kind, opVars, scan, src, report>> /\ UNCHANGED sftpVars /\ dial' = dial
          /\ tcp' = tcp \/ tcp' = "closed"
      BY ZenonT(30), <1>4 DEF CloseStart, CloseConn, dialVars, netVars, streamVars
    <2> QED
      BY ZenonT(30), <1>1, <2>1
  <1>5. ASSUME NEW k \in CloseCallers, CloseSftp(k) PROVE ClientInv'
    <2>1. UNCHANGED <<kind, opVars, scan, src, report>> /\ dial' = dial /\ tcp' = tcp /\ pc' = pc
      BY ZenonT(30), <1>5 DEF CloseSftp, dialVars, netVars, opVars, streamVars
    <2>2. mu = Nobody /\ sftpOpen' = sftpOpen \ {sftp} /\ sftp' = Nobody
      BY ZenonT(30), <1>5 DEF CloseSftp
    <2>3. SftpInv'
      BY Zenon, <2>1, <2>2, ClientAssumption DEF ClientInv, SftpInv
    <2> QED
      BY ZenonT(30), <2>1, <2>3, ConnectionKeeps
  <1>6. ASSUME NEW o \in Ops, Enter(o) \/ Expire(o) \/ CallNext(o) \/ HelperNext(o) PROVE ClientInv'
    BY ZenonT(30), <1>6, EnterKeeps, HelperKeeps, GetSftpKeeps, OpenSessionKeeps, WaitKeeps, StreamReturnsKeeps
       DEF CallNext, HelperNext
  <1>7. ASSUME NEW o \in Ops, NEW p \in Pipes, TakeLine(o, p) PROVE ClientInv'
    <2>1. UNCHANGED <<kind, opVars, scan, src, report>> /\ UNCHANGED sftpVars /\ dial' = dial /\ tcp' = tcp
      BY ZenonT(30), <1>7 DEF TakeLine, dialVars, netVars
    <2> QED
      BY ZenonT(30), <1>1, <2>1
  <1>8. ASSUME NEW o \in Ops, NEW p \in Pipes, ScannerNext(o, p) PROVE ClientInv'
    BY ZenonT(30), <1>8, ScannerKeeps
  <1>9. CASE KeepAliveNext \/ \E k \in Closers : CloseStart(k) \/ CloseNext(k)
    BY ZenonT(30), <1>3, <1>4, <1>5, <1>9 DEF KeepAliveNext, CloseNext, CloseCallers
  <1> QED
    BY ZenonT(30), <1>2, <1>3, <1>6, <1>7, <1>8, <1>9 DEF ClientNext

\* GetSftp never has two SFTP clients open, and a Stream that sends true on doneCh
\* has queued every line unless the connection broke or its context ended, for any
\* number of operations and of Close calls, the keep-alive loop's among them.
THEOREM SessionsAreSound == ClientSpec => []SessionsSound
  <1>1. ClientSpec => []ClientInv
    BY ClientStart, ClientStep, PTL DEF ClientSpec
  <1>2. ClientInv => OneSftp
    <2>1. ClientInv => sftpOpen = {} \/ sftpOpen = {sftp}
      BY Zenon DEF ClientInv, SftpInv
    <2> QED
      BY ZenonT(30), <2>1 DEF OneSftp
  <1>3. ClientInv => StreamComplete
    <2> SUFFICES ASSUME ClientInv, NEW o \in Ops, report[o] = "true", Up, ~expired[o], NEW p \in Pipes
                 PROVE  src[o][p] = 0 /\ scan[o][p] = "done"
      BY Zenon DEF StreamComplete
    <2> QED
      BY DEF ClientInv, StreamInv, Ended
  <1> QED
    BY <1>1, <1>2, <1>3, PTL DEF SessionsSound

---------------------------------------------------------------------------
(* The tunnels.  The copying goroutines run only while their handler waits *)
(* for them, and each as long as it has a source and a destination.        *)

TunnelSpec == TunnelInit /\ [][TunnelNext]_tunnelVars

Ends == {"none", "open", "eof", "gone", "closed"}

TunnelTypes ==
    /\ connPC \in [Conns -> {"new", "greet", "request", "dial", "reply", "local", "pipe", "done"}]
    /\ near \in [Conns -> Ends] /\ far \in [Conns -> Ends]
    /\ up \in [Conns -> BOOLEAN] /\ down \in [Conns -> BOOLEAN]

PipeInv(c) ==
    /\ connPC[c] # "pipe" => up[c] = FALSE /\ down[c] = FALSE
    /\ connPC[c] = "pipe" /\ near[c] = "open" /\ far[c] # "gone" => up[c] = TRUE
    /\ connPC[c] = "pipe" /\ far[c] = "open" /\ near[c] # "gone" => down[c] = TRUE

TunnelInv == TunnelTypes /\ \A c \in Conns : PipeInv(c)

\* What a handler, its goroutines and its peers change.
Pipe(c) == <<connPC[c], near[c], far[c], up[c], down[c]>>

LEMMA HandlerOwn ==
    ASSUME TunnelInv, NEW c \in Conns, TunnelTypes', PipeInv(c)',
           \A d \in Conns : d # c => Pipe(d)' = Pipe(d)
    PROVE  TunnelInv'
  <1> SUFFICES ASSUME NEW d \in Conns, d # c PROVE PipeInv(d)'
    BY Zenon DEF TunnelInv
  <1>1. /\ connPC'[d] = connPC[d] /\ near'[d] = near[d] /\ far'[d] = far[d]
        /\ up'[d] = up[d] /\ down'[d] = down[d]
    BY Zenon DEF Pipe
  <1>2. PipeInv(d)
    BY Zenon DEF TunnelInv
  <1> QED
    BY ZenonT(30), <1>1, <1>2 DEF PipeInv

\* A handler that leaves, before it copies or when both goroutines have ended.
LEMMA LeaveKeeps ==
    ASSUME TunnelInv, NEW c \in Conns, NEW r, Leave(c, r), UNCHANGED <<up, down>>,
           up[c] = FALSE, down[c] = FALSE
    PROVE  TunnelInv'
  <1>1. PICK e \in Ends : far' = [far EXCEPT ![c] = e]
    BY ZenonT(30) DEF Leave, Ends
  <1>2. TunnelTypes' /\ connPC'[c] = "done" /\ \A d \in Conns : d # c => Pipe(d)' = Pipe(d)
    BY ZenonT(30), <1>1 DEF TunnelInv, TunnelTypes, Leave, Ends, Pipe
  <1>3. PipeInv(c)'
    BY Zenon, <1>2 DEF PipeInv
  <1> QED
    BY Zenon, <1>2, <1>3, HandlerOwn

\* The steps before the goroutines are started, and their start.
LEMMA HandlerKeeps ==
    ASSUME TunnelInv, NEW c \in Conns, HandlerNext(c)
    PROVE  TunnelInv'
  <1>1. connPC[c] # "pipe" => up[c] = FALSE /\ down[c] = FALSE
    BY Zenon DEF TunnelInv, PipeInv
  <1>2. ASSUME NEW r, Leave(c, r), UNCHANGED <<up, down>>, up[c] = FALSE, down[c] = FALSE PROVE TunnelInv'
    BY ZenonT(30), <1>2, LeaveKeeps
  <1>3. ASSUME NEW a \in {"request", "dial", "reply"}, connPC' = [connPC EXCEPT ![c] = a], UNCHANGED <<near, up, down>>,
               connPC[c] # "pipe", far' = far \/ far' = [far EXCEPT ![c] = "open"]
        PROVE  TunnelInv'
    <2>1. TunnelTypes' /\ connPC'[c] # "pipe" /\ \A d \in Conns : d # c => Pipe(d)' = Pipe(d)
      BY ZenonT(30), <1>3 DEF TunnelInv, TunnelTypes, Ends, Pipe
    <2>2. PipeInv(c)'
      BY Zenon, <1>1, <1>3, <2>1 DEF PipeInv
    <2> QED
      BY Zenon, <2>1, <2>2, HandlerOwn
  <1>4. ASSUME connPC' = [connPC EXCEPT ![c] = "pipe"], UNCHANGED near,
               up' = [up EXCEPT ![c] = TRUE], down' = [down EXCEPT ![c] = TRUE],
               far' = far \/ far' = [far EXCEPT ![c] = "open"]
        PROVE  TunnelInv'
    <2>1. /\ TunnelTypes' /\ connPC'[c] = "pipe" /\ up'[c] = TRUE /\ down'[c] = TRUE
          /\ \A d \in Conns : d # c => Pipe(d)' = Pipe(d)
      BY ZenonT(30), <1>4 DEF TunnelInv, TunnelTypes, Ends, Pipe
    <2>2. PipeInv(c)'
      BY Zenon, <2>1 DEF PipeInv
    <2> QED
      BY Zenon, <2>1, <2>2, HandlerOwn
  <1>5. CASE Greet(c)
    BY ZenonT(60), <1>1, <1>2, <1>3, <1>5 DEF Greet
  <1>6. CASE Request(c)
    BY ZenonT(60), <1>1, <1>2, <1>3, <1>6 DEF Request
  <1>7. CASE DialTarget(c)
    BY ZenonT(60), <1>1, <1>2, <1>3, <1>7 DEF DialTarget
  <1>8. CASE Reply(c)
    BY ZenonT(60), <1>1, <1>2, <1>4, <1>8 DEF Reply
  <1>9. CASE DialLocal(c)
    BY ZenonT(60), <1>1, <1>2, <1>4, <1>9 DEF DialLocal
  <1>10. CASE PipeDone(c)
    <2>1. up[c] = FALSE /\ down[c] = FALSE
      BY Zenon, <1>10 DEF PipeDone, TunnelInv, TunnelTypes
    <2> QED
      BY ZenonT(30), <1>2, <1>10, <2>1 DEF PipeDone
  <1>11. CASE CopyEnds(c)
    <2>1. connPC' = connPC /\ near' = near /\ far' = far /\ connPC[c] = "pipe"
      BY ZenonT(30), <1>11 DEF CopyEnds
    <2>2. \/ near[c] \in {"eof", "gone"} /\ up' = [up EXCEPT ![c] = FALSE] /\ down' = down
          \/ far[c] \in {"eof", "gone"} /\ down' = [down EXCEPT ![c] = FALSE] /\ up' = up
      BY ZenonT(30), <1>11 DEF CopyEnds
    <2>3. TunnelTypes' /\ \A d \in Conns : d # c => Pipe(d)' = Pipe(d)
      BY ZenonT(30), <2>1, <2>2 DEF TunnelInv, TunnelTypes, Pipe
    <2>4. PipeInv(c)'
      BY Zenon, <2>1, <2>2 DEF TunnelInv, TunnelTypes, PipeInv
    <2> QED
      BY Zenon, <2>3, <2>4, HandlerOwn
  <1> QED
    BY ZenonT(30), <1>5, <1>6, <1>7, <1>8, <1>9, <1>10, <1>11 DEF HandlerNext

\* The peers: one finishes, goes away, or is gone when there is something to write.
LEMMA PeerKeeps ==
    ASSUME TunnelInv, NEW c \in Conns, PeerEnds(c) \/ WriteFails(c)
    PROVE  TunnelInv'
  <1>1. CASE PeerEnds(c)
    <2>1. connPC' = connPC /\ up' = up /\ down' = down
      BY ZenonT(30), <1>1 DEF PeerEnds
    <2>2. PICK how \in {"eof", "gone"} :
            \/ near[c] \in {"open", "eof"} /\ near' = [near EXCEPT ![c] = how] /\ far' = far
            \/ far[c] \in {"open", "eof"} /\ far' = [far EXCEPT ![c] = how] /\ near' = near
      BY ZenonT(30), <1>1 DEF PeerEnds
    <2>3. TunnelTypes' /\ \A d \in Conns : d # c => Pipe(d)' = Pipe(d)
      BY Zenon, <2>1, <2>2 DEF TunnelInv, TunnelTypes, Ends, Pipe
    <2>4. PipeInv(c)'
      BY Zenon, <2>1, <2>2 DEF TunnelInv, TunnelTypes, PipeInv
    <2> QED
      BY Zenon, <2>3, <2>4, HandlerOwn
  <1>2. CASE WriteFails(c)
    <2>1. connPC' = connPC /\ near' = near /\ far' = far /\ connPC[c] = "pipe"
      BY ZenonT(30), <1>2 DEF WriteFails
    <2>2. \/ far[c] = "gone" /\ up' = [up EXCEPT ![c] = FALSE] /\ down' = down
          \/ near[c] = "gone" /\ down' = [down EXCEPT ![c] = FALSE] /\ up' = up
      BY ZenonT(30), <1>2 DEF WriteFails
    <2>3. TunnelTypes' /\ \A d \in Conns : d # c => Pipe(d)' = Pipe(d)
      BY ZenonT(30), <2>1, <2>2 DEF TunnelInv, TunnelTypes, Pipe
    <2>4. PipeInv(c)'
      BY Zenon, <2>1, <2>2 DEF TunnelInv, TunnelTypes, PipeInv
    <2> QED
      BY Zenon, <2>3, <2>4, HandlerOwn
  <1> QED
    BY Zenon, <1>1, <1>2

\* The steps that touch many connections, or none that copies.
LEMMA TunnelStep == TunnelInv /\ [TunnelNext]_tunnelVars => TunnelInv'
  <1> SUFFICES ASSUME TunnelInv, [TunnelNext]_tunnelVars PROVE TunnelInv'
    BY Zenon
  <1>1. ASSUME UNCHANGED connVars PROVE TunnelInv'
    BY ZenonT(30), <1>1 DEF connVars, TunnelInv, TunnelTypes, PipeInv
  <1>2. CASE UNCHANGED tunnelVars \/ Cancel \/ CloseListener \/ AcceptFails \/ ReverseNext
    BY ZenonT(30), <1>1, <1>2 DEF tunnelVars, Cancel, CloseListener, AcceptFails, ReverseNext, LoopCheck, SessionStart, LoopNext
  <1>3. CASE CloseClient
    <2>1. connPC' = connPC /\ near' = near /\ up' = up /\ down' = down
      BY ZenonT(30), <1>3 DEF CloseClient
    <2>2. far' \in [Conns -> Ends] /\ \A c \in Conns : far'[c] \in {far[c], "gone"}
      BY Zenon, <1>3 DEF CloseClient, TunnelInv, TunnelTypes, Ends
    <2> QED
      BY Zenon, <2>1, <2>2 DEF TunnelInv, TunnelTypes, PipeInv
  <1>4. CASE SessionStop
    <2>1. connPC' = connPC /\ far' = far /\ up' = up /\ down' = down
      BY ZenonT(30), <1>4 DEF SessionStop
    <2>2. near' \in [Conns -> Ends] /\ \A c \in Conns : near'[c] \in {near[c], "gone"}
      BY Zenon, <1>4 DEF SessionStop, SessionEnds, TunnelInv, TunnelTypes, Ends
    <2> QED
      BY Zenon, <2>1, <2>2 DEF TunnelInv, TunnelTypes, PipeInv
  <1>5. ASSUME NEW c \in Conns, Accept(c) \/ Forward(c) PROVE TunnelInv'
    <2>1. far' = far /\ up' = up /\ down' = down /\ connPC[c] = "new"
      BY ZenonT(30), <1>5 DEF Accept, Forward
    <2>2. PICK a \in {"greet", "local"} : connPC' = [connPC EXCEPT ![c] = a] /\ near' = [near EXCEPT ![c] = "open"]
      BY ZenonT(30), <1>5 DEF Accept, Forward
    <2>3. TunnelTypes' /\ connPC'[c] # "pipe" /\ \A d \in Conns : d # c => Pipe(d)' = Pipe(d)
      BY Zenon, <2>1, <2>2 DEF TunnelInv, TunnelTypes, Ends, Pipe
    <2>4. PipeInv(c)'
      BY Zenon, <2>1, <2>3 DEF TunnelInv, PipeInv
    <2> QED
      BY Zenon, <2>3, <2>4, HandlerOwn
  <1>6. ASSUME NEW c \in Conns, PeerNext(c) PROVE TunnelInv'
    BY Zenon, <1>6, HandlerKeeps, PeerKeeps DEF PeerNext
  <1>7. Socks \subseteq Conns /\ Forwards \subseteq Conns
    BY Zenon DEF Conns
  <1> QED
    BY ZenonT(30), <1>2, <1>3, <1>4, <1>5, <1>6, <1>7 DEF TunnelNext, SocksSide, ReverseSide, ServeNext

\* A half-closed tunnel still carries the other direction, and a handler closes
\* the two connections only when both goroutines have ended, for any number of
\* SOCKS5 connections and forwarded channels.
THEOREM TunnelsStayOpen == TunnelSpec => []HalfCloseKeepsTheOther
  <1>1. TunnelInit => TunnelInv
    BY DEF TunnelInit, TunnelInv, TunnelTypes, PipeInv, Ends
  <1>2. TunnelInv => HalfCloseKeepsTheOther
    BY Zenon DEF TunnelInv, TunnelTypes, PipeInv, HalfCloseKeepsTheOther
  <1> QED
    BY <1>1, <1>2, TunnelStep, PTL DEF TunnelSpec

---------------------------------------------------------------------------
(* The certificate authority.  The counter never runs ahead of the clock   *)
(* that a restart starts it from, and a request that waits for its serial  *)
(* holds the user of a token that was valid when it was presented.         *)

CASpec == CAInit /\ [][CANext]_caVars

SerialInv ==
    /\ clock \in Nat /\ serial \in Nat /\ serial <= clock
    /\ \A x \in issued : ~x.own => x.serial \in Nat /\ x.serial <= serial
    /\ UniqueSerials

\* A certificate that IssueCert adds has the next serial, or one of the caller's.
LEMMA IssueKeeps ==
    ASSUME SerialInv, NEW k \in Callers, IssueCert(k)
    PROVE  SerialInv'
  <1> DEFINE c == [by |-> k, at |-> clock, serial |-> Serial(k), own |-> req[k].cfgSerial # 0,
                   principal |-> req[k].user, token |-> req[k].token,
                   after |-> req[k].now - Backdate, before |-> req[k].now + TTL]
  <1>1. issued' = issued \union {c} /\ clock' = clock + 1
    BY ZenonT(30) DEF IssueCert
  <1>2. c.serial = Serial(k) /\ c.own = (req[k].cfgSerial # 0)
    BY ZenonT(30)
  <1> HIDE DEF c
  <1>3. serial' = IF req[k].cfgSerial = 0 THEN serial + 1 ELSE serial
    BY Zenon DEF IssueCert
  <1>4. ~c.own => c.serial = serial + 1 /\ serial' = serial + 1
    BY ZenonT(30), <1>2, <1>3 DEF Serial
  <1>5. clock' \in Nat /\ serial' \in Nat /\ serial' <= clock' /\ serial <= serial'
    BY <1>1, <1>3 DEF SerialInv
  <1>6. ASSUME NEW x \in issued', ~x.own PROVE x.serial \in Nat /\ x.serial <= serial'
    BY <1>1, <1>4, <1>5, <1>6 DEF SerialInv
  <1>7. ASSUME NEW x \in issued', NEW y \in issued', ~x.own, ~y.own, x.serial = y.serial PROVE x = y
    <2>1. CASE x \in issued /\ y \in issued
      BY Zenon, <1>7, <2>1 DEF SerialInv, UniqueSerials
    <2>2. CASE x \in issued /\ y = c
      BY <1>4, <1>7, <2>2 DEF SerialInv
    <2>3. CASE x = c /\ y \in issued
      BY <1>4, <1>7, <2>3 DEF SerialInv
    <2> QED
      BY Zenon, <1>1, <1>7, <2>1, <2>2, <2>3
  <1>8. UniqueSerials'
    BY ZenonT(30), <1>7 DEF UniqueSerials
  <1> QED
    BY ZenonT(30), <1>5, <1>6, <1>8 DEF SerialInv

Honest(c) ==
    /\ c.after <= c.at /\ c.principal = UserClaim(c.token)
    /\ c.token.exp > 0 => c.after + Backdate <= c.token.exp

RequestInv(k) ==
    /\ req[k].now \in Nat /\ req[k].now <= clock /\ req[k].token.exp \in Nat
    /\ req[k].user = UserClaim(req[k].token)
    /\ req[k].token.exp > 0 => req[k].now <= req[k].token.exp

HonestInv ==
    /\ clock \in Nat /\ DOMAIN req = Callers /\ DOMAIN step = Callers
    /\ \A k \in Callers : step[k] = "serial" => RequestInv(k)
    /\ \A c \in issued : Honest(c)

LEMMA PresentHonest ==
    ASSUME HonestInv, NEW k \in Callers, NEW t \in Tokens, NEW s \in Serials, Present(k, t, s)
    PROVE  HonestInv'
  <1>1. clock' = clock /\ issued' = issued /\ ValidClaims(t) /\ step' = [step EXCEPT ![k] = "serial"]
    BY ZenonT(30) DEF Present
  <1>2. PICK u : u = UserClaim(t)
    BY Zenon
  <1>3. PICK q : q = [user |-> u, cfgSerial |-> s, now |-> clock, token |-> t]
    BY ZenonT(30)
  <1>4. req' = [req EXCEPT ![k] = q]
    BY ZenonT(30), <1>2, <1>3 DEF Present
  <1>5. q.user = u /\ q.now = clock /\ q.token = t /\ t.exp \in Nat /\ (t.exp > 0 => clock <= t.exp)
    BY ZenonT(30), <1>1, <1>3, CAAssumption DEF ValidClaims
  <1>6. /\ DOMAIN req' = Callers /\ DOMAIN step' = Callers /\ req'[k] = q
        /\ \A j \in Callers : j # k => req'[j] = req[j] /\ step'[j] = step[j]
    BY Zenon, <1>1, <1>4 DEF HonestInv
  <1>7. RequestInv(k)'
    <2>1. clock \in Nat
      BY ZenonT(30) DEF HonestInv
    <2>2. clock <= clock
      BY <2>1
    <2> QED
      BY ZenonT(30), <1>1, <1>2, <1>5, <1>6, <2>1, <2>2 DEF RequestInv, UserClaim
  <1>8. ASSUME NEW j \in Callers, j # k, step'[j] = "serial" PROVE RequestInv(j)'
    BY ZenonT(30), <1>1, <1>6, <1>8 DEF RequestInv, HonestInv, UserClaim
  <1>9. \A c \in issued' : Honest(c)'
    BY ZenonT(30), <1>1 DEF Honest, HonestInv, UserClaim
  <1> QED
    BY ZenonT(30), <1>1, <1>6, <1>7, <1>8, <1>9 DEF HonestInv

LEMMA IssueHonest ==
    ASSUME HonestInv, NEW k \in Callers, IssueCert(k)
    PROVE  HonestInv'
  <1>1. PICK n : n = req[k].now
    BY Zenon
  <1>2. PICK c : c = [by |-> k, at |-> clock, serial |-> Serial(k), own |-> req[k].cfgSerial # 0,
                      principal |-> req[k].user, token |-> req[k].token,
                      after |-> n - Backdate, before |-> n + TTL]
    BY ZenonT(30)
  <1>3. /\ issued' = issued \union {c} /\ clock' = clock + 1 /\ step[k] = "serial"
        /\ step' = [step EXCEPT ![k] = "idle"] /\ req' = [req EXCEPT ![k] = NoReq]
    BY ZenonT(30), <1>1, <1>2 DEF IssueCert
  <1>4. c.at = clock /\ c.principal = req[k].user /\ c.token = req[k].token /\ c.after = n - Backdate
    BY ZenonT(30), <1>2
  <1>5. RequestInv(k)
    BY Zenon, <1>3 DEF HonestInv
  <1>6. Honest(c)
    <2>1. /\ n \in Nat /\ n <= clock /\ req[k].token.exp \in Nat
          /\ req[k].token.exp > 0 => n <= req[k].token.exp
          /\ req[k].user = UserClaim(req[k].token)
      BY ZenonT(30), <1>1, <1>5 DEF RequestInv
    <2>2. PICK e : e = req[k].token.exp
      BY Zenon
    <2>3. n - Backdate <= clock /\ (e > 0 => (n - Backdate) + Backdate <= e)
      BY <2>1, <2>2, CAAssumption DEF HonestInv
    <2> QED
      BY ZenonT(30), <1>4, <2>1, <2>2, <2>3 DEF Honest
  <1>7. /\ clock' \in Nat /\ DOMAIN req' = Callers /\ DOMAIN step' = Callers /\ step'[k] = "idle"
        /\ \A j \in Callers : j # k => req'[j] = req[j] /\ step'[j] = step[j]
    BY <1>3 DEF HonestInv
  <1>8. ASSUME NEW j \in Callers, step'[j] = "serial" PROVE RequestInv(j)'
    <2>1. j # k /\ req'[j] = req[j] /\ RequestInv(j)
      BY ZenonT(30), <1>7, <1>8 DEF HonestInv
    <2>2. req[j].now \in Nat /\ req[j].now <= clock => req[j].now <= clock'
      BY SMTT(30), <1>3 DEF HonestInv
    <2> QED
      BY ZenonT(30), <2>1, <2>2 DEF RequestInv, UserClaim
  <1>9. \A d \in issued' : Honest(d)'
    BY ZenonT(30), <1>3, <1>6 DEF Honest, HonestInv, UserClaim
  <1> QED
    BY ZenonT(30), <1>7, <1>8, <1>9 DEF HonestInv

\* No two certificates that carry a serial of the authority's own carry the same:
\* the atomic counter of IssueUserCert and IssueHostCert tells concurrent calls
\* apart, and NewCA's start from the clock the runs of the process.  And each is
\* valid when it is issued, for the user of a token that had not expired.
THEOREM CertificatesAreSound == CASpec => []CertificatesSound
  <1>1. CAInit => SerialInv /\ HonestInv
    BY CAAssumption DEF CAInit, SerialInv, UniqueSerials, HonestInv
  <1>2. SerialInv /\ HonestInv /\ [CANext]_caVars => (SerialInv /\ HonestInv)'
    <2> SUFFICES ASSUME SerialInv, HonestInv, [CANext]_caVars PROVE SerialInv' /\ HonestInv'
      BY Zenon
    <2>1. CASE Restart
      <3>1. SerialInv'
        BY <2>1 DEF Restart, NewCA, SerialInv, UniqueSerials
      <3>2. /\ clock' = clock + 1 /\ issued' = issued /\ DOMAIN req' = Callers /\ DOMAIN step' = Callers
            /\ \A k \in Callers : step'[k] = "idle"
        BY Zenon, <2>1 DEF Restart
      <3>3. \A c \in issued' : Honest(c)'
        BY ZenonT(30), <3>2 DEF Honest, HonestInv, UserClaim
      <3> QED
        BY <3>1, <3>2, <3>3 DEF HonestInv
    <2>2. ASSUME NEW k \in Callers, IssueCert(k) PROVE SerialInv' /\ HonestInv'
      BY Zenon, <2>2, IssueKeeps, IssueHonest
    <2>3. ASSUME NEW k \in Callers, NEW t \in Tokens, NEW s \in Serials, Present(k, t, s) PROVE SerialInv' /\ HonestInv'
      <3>1. SerialInv'
        BY ZenonT(30), <2>3 DEF Present, SerialInv, UniqueSerials
      <3> QED
        BY Zenon, <2>3, <3>1, PresentHonest
    <2>4. CASE UNCHANGED caVars
      BY ZenonT(30), <2>4 DEF caVars, SerialInv, UniqueSerials, HonestInv, RequestInv, Honest, UserClaim
    <2> QED
      BY Zenon, <2>1, <2>2, <2>3, <2>4 DEF CANext
  <1>3. SerialInv /\ HonestInv => CertificatesSound
    BY Zenon DEF SerialInv, HonestInv, Honest, CertificateHonest, CertificatesSound
  <1> QED
    BY <1>1, <1>2, <1>3, PTL DEF CASpec

---------------------------------------------------------------------------
(* Setting up a client.  While the entry's options are applied, the last is *)
(* its known hosts file if it has one; once the caller's are, the policy is *)
(* that of the caller's last host key option, if there was one.             *)

SetupSpec == SetupInit /\ [][SetupNext]_setupVars

LEMMA LastAdded ==
    ASSUME NEW S, NEW s \in Seq(S), NEW x \in S
    PROVE  /\ s \o <<x>> \in Seq(S) /\ s \o <<x>> # <<>>
           /\ (s \o <<x>>)[Len(s \o <<x>>)] = x
  OBVIOUS

LEMMA OneBefore == ASSUME NEW n \in Nat, NEW m, m = n - 1, m = 0 PROVE n = 1
  OBVIOUS

LEMMA TailOf ==
    ASSUME NEW S, NEW s \in Seq(S), s # <<>>
    PROVE  /\ Head(s) = s[1] /\ 1 \in DOMAIN s /\ Head(s) \in S /\ Tail(s) \in Seq(S)
           /\ \A i \in DOMAIN Tail(s) : i + 1 \in DOMAIN s /\ Tail(s)[i] = s[i + 1]
           /\ Tail(s) # <<>> => Tail(s)[Len(Tail(s))] = s[Len(s)]
           /\ Tail(s) = <<>> => Head(s) = s[Len(s)]
<1>1. /\ Head(s) = s[1] /\ 1 \in DOMAIN s /\ Head(s) \in S /\ Tail(s) \in Seq(S)
      /\ \A i \in DOMAIN Tail(s) : i + 1 \in DOMAIN s /\ Tail(s)[i] = s[i + 1]
  OBVIOUS
<1>0. Len(Tail(s)) = Len(s) - 1 /\ Len(s) \in Nat
  OBVIOUS
<1>2. ASSUME Tail(s) # <<>> PROVE Tail(s)[Len(Tail(s))] = s[Len(s)]
  BY <1>1, <1>2
<1>3. ASSUME Tail(s) = <<>> PROVE Head(s) = s[Len(s)]
  <2>1. Len(<<>>) = 0
    BY Zenon
  <2>2. Len(Tail(s)) = 0
    BY <1>3, <2>1, Zenon
  <2>3. Len(s) = 1
    BY <1>0, <2>2, OneBefore, Zenon
  <2> QED BY <1>1, <2>3, Zenon
<1> QED BY Zenon, <1>1, <1>2, <1>3

---------------------------------------------------------------------------
\* The configuration: entries of the words in its lines.
Words == {l[2] : l \in ConfigLines} \cup {"empty"}
Entries == [hostName : Words \cup Aliases, user : Words, port : Nat, files : Seq(Words),
            strict : Words, known : Words]
EntriesInv ==
    /\ \A p \in DOMAIN hosts : hosts[p] \in Entries
    /\ current = "empty" \/ current \in DOMAIN hosts

LEMMA BlankEntry == Blank \in Entries
  BY DEF Blank, Entries, Words

LEMMA DirectiveKeeps ==
    ASSUME NEW e \in Entries, NEW key, NEW val \in Words PROVE Directive(e, key, val) \in Entries
<1>1. e.files \in Seq(Words) /\ Append(e.files, val) \in Seq(Words)
  BY DEF Entries
<1>2. CASE key = "identityfile"
  BY <1>1, <1>2, Zenon DEF Directive, Entries
<1>3. CASE key = "port" 
  BY <1>3 DEF Directive, Entries
<1>4. CASE key \notin {"identityfile", "port"}
  BY Zenon, <1>4 DEF Directive, Entries
<1> QED BY Zenon, <1>2, <1>3, <1>4

LEMMA WithKeeps ==
    ASSUME NEW f, NEW x, NEW v \in Entries, \A p \in DOMAIN f : f[p] \in Entries
    PROVE  x \in DOMAIN With(f, x, v) /\ \A p \in DOMAIN With(f, x, v) : With(f, x, v)[p] \in Entries
  BY Zenon DEF With

LEMMA ParseKeeps ==
    ASSUME EntriesInv, NEW line \in ConfigLines, ParseLine(line) PROVE EntriesInv'
<1>1. line[2] \in Words
  BY Zenon DEF Words
<1>2. CASE line[1] = "host"
  BY Zenon, <1>2, BlankEntry, WithKeeps DEF ParseLine, EntriesInv
<1>3. CASE line[1] # "host"
  <2> DEFINE spot == IF current = "empty" THEN "*" ELSE current
             fresh == IF current = "empty" THEN Blank ELSE hosts[spot]
  <2>1. hosts' = With(hosts, spot, Directive(fresh, line[1], line[2])) /\ current' = spot
    BY Zenon, <1>3 DEF ParseLine
  <2>2. fresh \in Entries
    BY Zenon, BlankEntry DEF EntriesInv
  <2>3. Directive(fresh, line[1], line[2]) \in Entries
    BY Zenon, <1>1, <2>2, DirectiveKeeps
  <2> HIDE DEF spot, fresh
  <2> QED BY Zenon, <2>1, <2>3, WithKeeps DEF EntriesInv
<1> QED BY Zenon, <1>2, <1>3

LEMMA HostEntry == ASSUME EntriesInv, NEW a \in Aliases PROVE GetHost(a) \in Entries
<1>1. CASE a \in DOMAIN hosts
  BY Zenon, <1>1 DEF EntriesInv, GetHost
<1>2. CASE a \notin DOMAIN hosts /\ "*" \in DOMAIN hosts
  <2>1. hosts["*"] \in Entries
    BY Zenon, <1>2 DEF EntriesInv
  <2>2. GetHost(a) = [hostName |-> a, user |-> hosts["*"].user, port |-> hosts["*"].port,
                      files |-> hosts["*"].files, strict |-> "empty", known |-> "empty"]
    BY <1>2, Zenon DEF GetHost, Blank
  <2>3. /\ hosts["*"].user \in Words /\ hosts["*"].port \in Nat
        /\ hosts["*"].files \in Seq(Words) /\ "empty" \in Words
    BY Zenon, <2>1 DEF Entries, Words
  <2> QED BY <2>2, <2>3 DEF Entries
<1>3. CASE a \notin DOMAIN hosts /\ "*" \notin DOMAIN hosts
  <2>1. GetHost(a) = [Blank EXCEPT !.hostName = a]
    BY Zenon, <1>3 DEF GetHost
  <2> QED BY Zenon, <2>1, BlankEntry DEF Entries
<1> QED BY Zenon, <1>1, <1>2, <1>3

---------------------------------------------------------------------------
\* The options of an entry.
Todos == ({"WithPort"} \X Nat)
    \cup ({"WithKeyFile", "WithKnownHosts", "WithInsecureIgnoreHostKey", "empty"} \X Words)
Strictly(e) == {o \in Todos : o[1] = "WithInsecureIgnoreHostKey" => e.strict \in FoldsToNo}

LEMMA OptionsOfEntry ==
    ASSUME NEW e \in Entries
    PROVE  /\ EntryOptions(e) \in Seq(Strictly(e))
           /\ e.known # "empty" => /\ EntryOptions(e) # <<>>
                                  /\ EntryOptions(e)[Len(EntryOptions(e))][1] = "WithKnownHosts"
<1> DEFINE A == IF e.port > 0 THEN << <<"WithPort", e.port>> >> ELSE <<>>
           B == [i \in DOMAIN e.files |->
                   IF e.files[i] \in DOMAIN KeyFiles THEN <<"WithKeyFile", e.files[i]>> ELSE NoOption]
           C == IF e.strict \in FoldsToNo THEN << <<"WithInsecureIgnoreHostKey", "empty">> >> ELSE <<>>
           D == IF e.known # "empty" THEN << <<"WithKnownHosts", e.known>> >> ELSE <<>>
           S == Strictly(e)
<1>0. EntryOptions(e) = A \o B \o C \o D
  BY Zenon DEF EntryOptions
<1>1. /\ e.port \in Nat /\ e.files \in Seq(Words) /\ e.known \in Words /\ "empty" \in Words
  BY Zenon DEF Entries, Words
<1>2. <<"WithPort", e.port>> \in S
  BY Zenon, <1>1 DEF Strictly, Todos
<1>3. \A w \in Words : <<"WithKeyFile", w>> \in S
  BY Zenon DEF Strictly, Todos
<1>4. NoOption \in S
  BY Zenon, <1>1 DEF Strictly, Todos, NoOption
<1>5. e.strict \in FoldsToNo => <<"WithInsecureIgnoreHostKey", "empty">> \in S
  BY Zenon, <1>1 DEF Strictly, Todos
<1>6. <<"WithKnownHosts", e.known>> \in S
  BY Zenon, <1>1 DEF Strictly, Todos
<1>7. A \in Seq(S)
  <2> HIDE DEF S
  <2> QED BY <1>2
<1>8. B \in Seq(S)
  <2> DEFINE F == e.files
  <2>1. F \in Seq(Words)
    BY Zenon, <1>1
  <2> HIDE DEF S, F
  <2>2. DOMAIN F = 1..Len(F) /\ Len(F) \in Nat /\ \A i \in DOMAIN F : F[i] \in Words
    BY <2>1
  <2>3. [i \in DOMAIN F |-> IF F[i] \in DOMAIN KeyFiles THEN <<"WithKeyFile", F[i]>> ELSE NoOption] \in Seq(S)
    BY <2>2, <1>3, <1>4
  <2> QED BY Zenon, <2>3 DEF F
<1>9. C \in Seq(S)
  <2> HIDE DEF S
  <2> QED BY <1>5
<1>10. D \in Seq(S)
  <2> HIDE DEF S
  <2> QED BY <1>6
<1>11. A \o B \o C \in Seq(S)
  <2> HIDE DEF A, B, C, S
  <2> QED BY <1>7, <1>8, <1>9
<1>12. A \o B \o C \o D \in Seq(S)
  <2> HIDE DEF A, B, C, D, S
  <2> QED BY <1>10, <1>11
<1>13. ASSUME e.known # "empty"
       PROVE  /\ EntryOptions(e) # <<>>
              /\ EntryOptions(e)[Len(EntryOptions(e))] = <<"WithKnownHosts", e.known>>
  <2>1. D = << <<"WithKnownHosts", e.known>> >>
    BY Zenon, <1>13
  <2> DEFINE X == A \o B \o C
  <2>2. EntryOptions(e) = X \o << <<"WithKnownHosts", e.known>> >>
    <3> HIDE DEF A, B, C, D
    <3> QED BY Zenon, <1>0, <2>1
  <2>3. X \in Seq(S)
    BY Zenon, <1>11
  <2> HIDE DEF X, S
  <2> QED BY Zenon, <2>2, <2>3, <1>6, LastAdded
<1>14. EntryOptions(e) \in Seq(S)
  <2> HIDE DEF A, B, C, D, S
  <2> QED BY Zenon, <1>0, <1>12
<1>15. <<"WithKnownHosts", e.known>>[1] = "WithKnownHosts"
  BY Zenon
<1> QED
  <2> HIDE DEF A, B, C, D
  <2> QED BY <1>13, <1>14, <1>15, Zenon DEF S

---------------------------------------------------------------------------
\* What an option does to the client.
IsClient(c) ==
    c = [addr |-> c.addr, user |-> c.user, port |-> c.port, auth |-> c.auth, hostKey |-> c.hostKey,
         ciphers |-> c.ciphers, proxy |-> c.proxy, jump |-> c.jump, err |-> c.err, state |-> c.state]
OptionNames == AuthOptions \cup HostKeyOptions \cup CipherOptions \cup RouteOptions \cup TransportOptions

LEMMA OtherOption ==
    ASSUME NEW c, NEW o, IsClient(c), o[1] \in (OptionNames \cup {"empty"}) \ HostKeyOptions
    PROVE  /\ IsClient(Apply(c, o))
           /\ Apply(c, o).hostKey = c.hostKey /\ Apply(c, o).state = c.state
<1>1. CASE o[1] = "empty"
  BY Zenon, <1>1 DEF Apply
<1>2. CASE o[1] \in AuthOptions
  <2>1. Apply(c, o) = AuthOption(c, o)
    BY Zenon, <1>2 DEF Apply, AuthOptions
  <2> QED BY <1>2, <2>1, Zenon DEF AuthOption, AuthOptions, IsClient
<1>3. CASE o[1] \in CipherOptions
  <2>1. Apply(c, o) = CipherOption(c, o)
    BY Zenon, <1>3 DEF Apply, AuthOptions, HostKeyOptions, CipherOptions
  <2> QED BY <2>1, Zenon DEF CipherOption, IsClient
<1>4. CASE o[1] \in RouteOptions
  <2>1. Apply(c, o) = RouteOption(c, o)
    BY Zenon, <1>4 DEF Apply, AuthOptions, HostKeyOptions, CipherOptions, RouteOptions
  <2> QED BY <2>1, Zenon DEF RouteOption, IsClient
<1>5. CASE o[1] \in TransportOptions
  <2>1. Apply(c, o) = TransportOption(c, o)
    BY Zenon, <1>5 DEF Apply, AuthOptions, HostKeyOptions, CipherOptions, RouteOptions, TransportOptions
  <2> QED BY <1>5, <2>1, Zenon DEF TransportOption, TransportOptions, IsClient
<1> QED BY Zenon, <1>1, <1>2, <1>3, <1>4, <1>5 DEF OptionNames

LEMMA KeyOption ==
    ASSUME NEW c, NEW o, IsClient(c), o[1] \in HostKeyOptions
    PROVE  /\ IsClient(Apply(c, o)) /\ Apply(c, o).state = c.state
           /\ o[1] = "WithInsecureIgnoreHostKey" \/ Apply(c, o).hostKey # "ignore" \/ Apply(c, o).err # "empty"
           /\ o[1] = "WithInsecureIgnoreHostKey" \/ Apply(c, o).hostKey # "ignore" \/ Apply(c, o).hostKey = c.hostKey
<1>1. Apply(c, o) = HostKeyOption(c, o)
  BY Zenon DEF Apply, AuthOptions, HostKeyOptions
<1>2. CASE o[1] = "WithKnownHosts" /\ o[2] = "missing"
  <2>1. Apply(c, o) = [c EXCEPT !.err = "known_hosts"]
    BY Zenon, <1>1, <1>2 DEF HostKeyOption
  <2> QED BY <2>1, Zenon DEF IsClient
<1>3. CASE o[1] = "WithKnownHosts" /\ o[2] # "missing"
  <2>1. Apply(c, o) = [c EXCEPT !.hostKey = "known"]
    BY Zenon, <1>1, <1>3 DEF HostKeyOption
  <2> QED BY <2>1, Zenon DEF IsClient
<1>4. CASE o[1] # "WithKnownHosts"
  <2>1. PICK k \in {"ignore", "fingerprint", "callback"} :
          Apply(c, o) = [c EXCEPT !.hostKey = k] /\ (k = "ignore" => o[1] = "WithInsecureIgnoreHostKey")
    BY Zenon, <1>1, <1>4 DEF HostKeyOption, HostKeyOptions
  <2> QED BY <2>1, Zenon DEF IsClient
<1> QED BY Zenon, <1>2, <1>3, <1>4

---------------------------------------------------------------------------
\* The client: what its host key policy is, and who asked for it.
Allowed == alias \in DOMAIN hosts /\ hosts[alias].strict \in FoldsToNo
OptionsInv ==
    /\ IsClient(client)
    /\ asked \in Seq(CallerOptions) /\ todo \in Seq(Todos)
    /\ alias = "empty" => todo = <<>> /\ asked = <<>> /\ client.hostKey = "empty" /\ client.state = "new"
    /\ todo # <<>> => asked = <<>> /\ client.state = "new"
    /\ client.state = "dialed" => client.err = "empty" /\ alias # "empty"
\* The configuration.
ConfigInv ==
    /\ \A i \in DOMAIN todo : todo[i][1] = "WithInsecureIgnoreHostKey" => Allowed
    /\ alias # "empty" /\ alias \in DOMAIN hosts /\ hosts[alias].known # "empty" =>
         \/ todo # <<>> /\ todo[Len(todo)][1] = "WithKnownHosts"
         \/ todo = <<>> /\ (HostKeyCalls # {} \/ client.hostKey # "ignore" \/ client.err # "empty")
    /\ client.hostKey = "ignore" /\ HostKeyCalls = {} => Allowed
\* The caller; a last option on host keys exists as soon as one does.
HasLast == HostKeyCalls # {} => \E n \in HostKeyCalls : \A j \in HostKeyCalls : j <= n
CallerInv ==
    /\ HasLast
    /\ client.hostKey = "ignore" /\ client.err = "empty" /\ HostKeyCalls # {}
         => LastHostKey = "WithInsecureIgnoreHostKey"
SetupInv == EntriesInv /\ OptionsInv /\ ConfigInv /\ CallerInv

LEMMA SetupInvSays == SetupInv => UncheckedWhenAsked
<1> SUFFICES ASSUME SetupInv, client.state = "dialed", client.hostKey = "ignore"
             PROVE  \/ LastHostKey = "WithInsecureIgnoreHostKey"
                    \/ /\ LastHostKey = "empty" /\ alias \in DOMAIN hosts
                       /\ hosts[alias].strict \in FoldsToNo /\ hosts[alias].known = "empty"
  BY Zenon DEF UncheckedWhenAsked
<1>1. client.err = "empty" /\ alias # "empty" /\ todo = <<>>
  BY Zenon DEF SetupInv, OptionsInv
<1>2. CASE HostKeyCalls # {}
  BY Zenon, <1>1, <1>2 DEF SetupInv, CallerInv
<1>3. CASE HostKeyCalls = {}
  BY Zenon, <1>1, <1>3 DEF SetupInv, ConfigInv, Allowed, LastHostKey
<1> QED BY Zenon, <1>2, <1>3

LEMMA SetupStarts == SetupInit => SetupInv
  BY DEF SetupInit, SetupInv, EntriesInv, OptionsInv, ConfigInv, CallerInv, HasLast, IsClient, HostKeyCalls

LEMMA CallsGrow ==
    ASSUME asked \in Seq(CallerOptions), HasLast, NEW o \in CallerOptions, asked' = Append(asked, o)
    PROVE  /\ HasLast'
           /\ o[1] \notin HostKeyOptions => HostKeyCalls' = HostKeyCalls /\ LastHostKey' = LastHostKey
           /\ o[1] \in HostKeyOptions => HostKeyCalls' # {} /\ LastHostKey' = o[1]
<1>1. /\ Len(asked) \in Nat /\ DOMAIN asked = 1..Len(asked) /\ DOMAIN asked' = 1..(Len(asked) + 1)
      /\ asked'[Len(asked) + 1] = o /\ \A i \in DOMAIN asked : asked'[i] = asked[i]
  OBVIOUS
<1>2. ASSUME o[1] \notin HostKeyOptions PROVE HostKeyCalls' = HostKeyCalls /\ LastHostKey' = LastHostKey
  <2>1. HostKeyCalls' = HostKeyCalls
    BY <1>1, <1>2 DEF HostKeyCalls
  <2>2. CASE HostKeyCalls = {}
    BY Zenon, <2>1, <2>2 DEF LastHostKey
  <2>3. CASE HostKeyCalls # {}
    <3>1. PICK n \in HostKeyCalls : \A j \in HostKeyCalls : j <= n
      BY Zenon, <2>3 DEF HasLast
    <3>2. \A i \in HostKeyCalls : asked'[i] = asked[i]
      BY Zenon, <1>1 DEF HostKeyCalls
    <3> HIDE DEF HostKeyCalls
    <3>3. (CHOOSE i \in HostKeyCalls : \A j \in HostKeyCalls : j <= i) \in HostKeyCalls
      BY Zenon, <3>1
    <3> DEFINE last == CHOOSE i \in HostKeyCalls : \A j \in HostKeyCalls : j <= i
    <3>4. LastHostKey = asked[last][1]
      BY <2>3, Zenon DEF LastHostKey
    <3>5. LastHostKey' = asked'[last][1]
      BY <2>1, <2>3, Zenon DEF LastHostKey
    <3> QED BY <2>1, <3>2, <3>3, <3>4, <3>5, Zenon
  <2> QED BY Zenon, <2>1, <2>2, <2>3
<1>3. ASSUME o[1] \in HostKeyOptions PROVE HostKeyCalls' # {} /\ LastHostKey' = o[1]
  <2>1. /\ Len(asked) + 1 \in HostKeyCalls'
        /\ \A j \in HostKeyCalls' : j <= Len(asked) + 1
        /\ \A i \in HostKeyCalls' : Len(asked) + 1 <= i => i = Len(asked) + 1
    BY <1>1, <1>3 DEF HostKeyCalls
  <2>2. (CHOOSE i \in HostKeyCalls' : \A j \in HostKeyCalls' : j <= i) = Len(asked) + 1
    BY Zenon, <2>1
  <2> QED BY Zenon, <1>1, <2>1, <2>2 DEF LastHostKey
<1>4. HasLast'
  <2>1. CASE o[1] \in HostKeyOptions
    <3>1. Len(asked) + 1 \in HostKeyCalls' /\ \A j \in HostKeyCalls' : j <= Len(asked) + 1
      BY <1>1, <2>1 DEF HostKeyCalls
    <3> QED BY <3>1, Zenon DEF HasLast
  <2>2. CASE o[1] \notin HostKeyOptions
    BY <1>2, <2>2, Zenon DEF HasLast
  <2> QED BY Zenon, <2>1, <2>2
<1> QED BY Zenon, <1>2, <1>3, <1>4

LEMMA ApplyNextKeeps == ASSUME SetupInv, ApplyNext PROVE SetupInv'
<1>1. /\ todo # <<>> /\ client' = Apply(client, Head(todo)) /\ todo' = Tail(todo)
      /\ UNCHANGED <<hosts, current, alias, asked>> /\ client.state = "new" /\ alias # "empty"
  BY Zenon DEF ApplyNext
<1> DEFINE o == Head(todo)
<1>2. todo \in Seq(Todos) /\ IsClient(client) /\ asked = <<>>
  BY Zenon, <1>1 DEF SetupInv, OptionsInv
<1>3. /\ o = todo[1] /\ 1 \in DOMAIN todo /\ o \in Todos /\ todo' \in Seq(Todos)
      /\ \A i \in DOMAIN todo' : i + 1 \in DOMAIN todo /\ todo'[i] = todo[i + 1]
      /\ todo' # <<>> => todo'[Len(todo')] = todo[Len(todo)]
      /\ todo' = <<>> => o = todo[Len(todo)]
  BY Zenon, <1>1, <1>2, TailOf
<1>4. HostKeyCalls = {} /\ HostKeyCalls' = {} /\ Allowed' = Allowed
  BY <1>1, <1>2 DEF HostKeyCalls, Allowed
<1>5. o[1] \in {"WithPort", "WithKeyFile", "WithKnownHosts", "WithInsecureIgnoreHostKey", "empty"}
  BY Zenon, <1>3 DEF Todos
<1> HIDE DEF o
<1>6. /\ IsClient(client') /\ client'.state = "new"
      /\ o[1] \notin HostKeyOptions => client'.hostKey = client.hostKey
      /\ o[1] = "WithKnownHosts" => /\ client'.hostKey # "ignore" \/ client'.err # "empty"
                                    /\ client'.hostKey # "ignore" \/ client'.hostKey = client.hostKey
  <2>1. CASE o[1] \in HostKeyOptions
    BY Zenon, <1>1, <1>2, <2>1, KeyOption DEF o
  <2>2. CASE o[1] \notin HostKeyOptions
    <3>1. o[1] \in (OptionNames \cup {"empty"}) \ HostKeyOptions
      BY Zenon, <1>5, <2>2 DEF OptionNames, HostKeyOptions, AuthOptions, TransportOptions
    <3>2. o[1] # "WithKnownHosts"
      BY Zenon, <2>2 DEF HostKeyOptions
    <3> QED BY Zenon, <1>1, <1>2, <2>2, <3>1, <3>2, OtherOption DEF o
  <2> QED BY Zenon, <2>1, <2>2
<1>7. OptionsInv'
  BY <1>1, <1>2, <1>3, <1>6 DEF OptionsInv
<1>8. ConfigInv'
  <2>1. \A i \in DOMAIN todo' : todo'[i][1] = "WithInsecureIgnoreHostKey" => Allowed'
    BY <1>3, <1>4, Zenon DEF SetupInv, ConfigInv
  <2>2. ASSUME (alias \in DOMAIN hosts /\ hosts[alias].known # "empty")'
        PROVE  \/ todo' # <<>> /\ todo'[Len(todo')][1] = "WithKnownHosts"
               \/ todo' = <<>> /\ (client'.hostKey # "ignore" \/ client'.err # "empty")
    <3>1. todo[Len(todo)][1] = "WithKnownHosts"
      BY <1>1, <2>2, Zenon DEF SetupInv, ConfigInv
    <3>2. CASE todo' = <<>>
      <4>1. o = todo[Len(todo)]
        BY Zenon, <1>3, <3>2
      <4>2. o[1] = "WithKnownHosts"
        BY Zenon, <3>1, <4>1
      <4> QED BY Zenon, <1>6, <3>2, <4>2
    <3>3. CASE todo' # <<>>
      BY <1>3, <3>1, <3>3, Zenon
    <3> QED BY <3>2, <3>3, Zenon
  <2>3. ASSUME client'.hostKey = "ignore" PROVE Allowed'
    <3>1. CASE o[1] = "WithInsecureIgnoreHostKey"
      BY <1>3, <1>4, <3>1, Zenon DEF SetupInv, ConfigInv
    <3>2. CASE o[1] \notin HostKeyOptions
      BY <1>4, <1>6, <2>3, <3>2, Zenon DEF SetupInv, ConfigInv
    <3>3. CASE o[1] = "WithKnownHosts"
      BY <1>4, <1>6, <2>3, <3>3, Zenon DEF SetupInv, ConfigInv
    <3> QED BY Zenon, <1>5, <3>1, <3>2, <3>3 DEF HostKeyOptions
  <2> QED BY <2>1, <2>2, <2>3, Zenon DEF ConfigInv
<1>9. CallerInv' /\ EntriesInv'
  BY <1>1, <1>4, Zenon DEF CallerInv, HasLast, SetupInv, EntriesInv
<1> QED BY Zenon, <1>7, <1>8, <1>9 DEF SetupInv

LEMMA ApplyCallerKeeps == ASSUME SetupInv, NEW o \in CallerOptions, ApplyCaller(o) PROVE SetupInv'
<1>1. /\ todo = <<>> /\ client' = Apply(client, o) /\ asked' = Append(asked, o)
      /\ UNCHANGED <<hosts, current, alias, todo>> /\ client.state = "new" /\ alias # "empty"
      /\ client.err = "empty"
  BY Zenon DEF ApplyCaller
<1>2. asked \in Seq(CallerOptions) /\ IsClient(client) /\ HasLast
  BY Zenon DEF SetupInv, OptionsInv, CallerInv
<1>3. /\ HasLast'
      /\ o[1] \notin HostKeyOptions => HostKeyCalls' = HostKeyCalls /\ LastHostKey' = LastHostKey
      /\ o[1] \in HostKeyOptions => HostKeyCalls' # {} /\ LastHostKey' = o[1]
  BY Zenon, <1>1, <1>2, CallsGrow
<1>4. Allowed' = Allowed
  BY Zenon, <1>1 DEF Allowed
<1>5. o[1] \in OptionNames
  BY Zenon, SetupAssumption DEF OptionNames
<1>6. asked' \in Seq(CallerOptions)
  BY <1>1, <1>2
<1>7. /\ IsClient(client') /\ client'.state = "new"
      /\ o[1] \notin HostKeyOptions => client'.hostKey = client.hostKey
      /\ o[1] \in HostKeyOptions /\ client'.hostKey = "ignore" /\ client'.err = "empty"
           => o[1] = "WithInsecureIgnoreHostKey"
  <2>1. CASE o[1] \in HostKeyOptions
    BY <1>1, <1>2, <2>1, KeyOption, Zenon
  <2>2. CASE o[1] \notin HostKeyOptions
    BY <1>1, <1>2, <1>5, <2>2, OtherOption, Zenon
  <2> QED BY Zenon, <2>1, <2>2
<1>8. EntriesInv' /\ OptionsInv'
  BY Zenon, <1>1, <1>2, <1>6, <1>7 DEF SetupInv, EntriesInv, OptionsInv
<1>9. ConfigInv'
  <2>1. CASE o[1] \in HostKeyOptions
    BY <1>1, <1>3, <2>1 DEF ConfigInv
  <2>2. CASE o[1] \notin HostKeyOptions
    BY <1>1, <1>3, <1>4, <1>7, <2>2, Zenon DEF ConfigInv, SetupInv
  <2> QED BY Zenon, <2>1, <2>2
<1>10. CallerInv'
  <2>1. CASE o[1] \in HostKeyOptions
    BY <1>3, <1>7, <2>1, Zenon DEF CallerInv
  <2>2. CASE o[1] \notin HostKeyOptions
    BY <1>1, <1>3, <1>7, <2>2, Zenon DEF CallerInv, SetupInv
  <2> QED BY Zenon, <2>1, <2>2
<1> QED BY Zenon, <1>8, <1>9, <1>10 DEF SetupInv

LEMMA NewClientKeeps == ASSUME SetupInv, NEW a \in Aliases, NewClientFromConfig(a) PROVE SetupInv'
<1> DEFINE e == GetHost(a)
           c == client'
<1>1. /\ alias = "empty" /\ alias' = a /\ todo' = EntryOptions(e)
      /\ UNCHANGED <<hosts, current, asked>>
      /\ client' = [client EXCEPT !.addr = IF e.hostName # "empty" THEN e.hostName ELSE a, !.user = e.user]
  BY Zenon DEF NewClientFromConfig
<1>2. /\ asked = <<>> /\ IsClient(client) /\ client.hostKey = "empty" /\ client.state = "new"
  BY Zenon, <1>1 DEF SetupInv, OptionsInv
<1>3. e \in Entries
  BY Zenon, HostEntry DEF SetupInv
<1>4. a # "empty"
  BY Zenon, SetupAssumption
<1>5. IsClient(client') /\ client'.hostKey = "empty" /\ client'.state = "new"
  <2> HIDE DEF e
  <2> QED BY <1>1, <1>2, Zenon DEF IsClient
<1>6. /\ todo' \in Seq(Strictly(e))
      /\ e.known # "empty" => todo' # <<>> /\ todo'[Len(todo')][1] = "WithKnownHosts"
  BY <1>1, <1>3, OptionsOfEntry, Zenon
<1>7. HostKeyCalls' = {}
  BY <1>1, <1>2 DEF HostKeyCalls
<1>8. e.strict \in FoldsToNo => Allowed'
  BY Zenon, <1>1 DEF Allowed, GetHost, Blank, FoldsToNo
<1>9. a \in DOMAIN hosts => e = hosts[a]
  BY Zenon DEF GetHost
<1> HIDE DEF e
<1>10. todo' \in Seq(Todos) /\ \A i \in DOMAIN todo' : todo'[i] \in Strictly(e)
  <2>1. Strictly(e) \subseteq Todos
    BY Zenon DEF Strictly
  <2> DEFINE S == Strictly(e)
             t == todo'
  <2>2. t \in Seq(S) /\ S \subseteq Todos
    BY Zenon, <1>6, <2>1
  <2> HIDE DEF S, t
  <2>3. t \in Seq(Todos) /\ \A i \in DOMAIN t : t[i] \in S
    BY <2>2
  <2> QED BY Zenon, <2>3 DEF S, t
<1>11. EntriesInv' /\ OptionsInv'
  BY Zenon, <1>1, <1>2, <1>4, <1>5, <1>10 DEF SetupInv, EntriesInv, OptionsInv
<1>12. ConfigInv'
  <2>1. \A i \in DOMAIN todo' : todo'[i][1] = "WithInsecureIgnoreHostKey" => Allowed'
    BY <1>8, <1>10, Zenon DEF Strictly
  <2>2. alias' \in DOMAIN hosts' /\ hosts'[alias'].known # "empty" => todo' # <<>> /\ todo'[Len(todo')][1] = "WithKnownHosts"
    BY <1>1, <1>6, <1>9, Zenon
  <2> QED BY Zenon, <2>1, <2>2, <1>5 DEF ConfigInv
<1>13. CallerInv'
  BY <1>7, Zenon DEF CallerInv, HasLast
<1> QED BY Zenon, <1>11, <1>12, <1>13 DEF SetupInv

LEMMA DialKeeps == ASSUME SetupInv, NEW d \in BOOLEAN, Dial(d) PROVE SetupInv'
<1>1. /\ alias # "empty" /\ client.state = "new" /\ todo = <<>>
      /\ UNCHANGED <<hosts, current, alias, todo, asked>>
      /\ client' = [client EXCEPT
           !.state = IF client.err # "empty" \/ (client.jump /\ client.proxy) \/ (client.hostKey = "empty" /\ ~d)
                       THEN "failed" ELSE "dialed",
           !.hostKey = IF @ = "empty" THEN "known" ELSE @]
  BY Zenon DEF Dial
<1>2. IsClient(client)
  BY Zenon DEF SetupInv, OptionsInv
<1>3. /\ IsClient(client') /\ client'.err = client.err
      /\ client'.hostKey = "ignore" <=> client.hostKey = "ignore"
      /\ client'.state = "dialed" => client.err = "empty"
  BY <1>1, <1>2, Zenon DEF IsClient
<1>4. /\ HostKeyCalls' = HostKeyCalls /\ LastHostKey' = LastHostKey /\ Allowed' = Allowed
  BY <1>1 DEF HostKeyCalls, LastHostKey, Allowed
<1>5. EntriesInv' /\ OptionsInv'
  BY Zenon, <1>1, <1>3 DEF SetupInv, EntriesInv, OptionsInv
<1>6. ConfigInv'
  BY <1>1, <1>3, <1>4, Zenon DEF SetupInv, ConfigInv
<1>7. CallerInv'
  BY <1>3, <1>4, Zenon DEF SetupInv, CallerInv, HasLast
<1> QED BY Zenon, <1>5, <1>6, <1>7 DEF SetupInv

LEMMA ParseLineKeeps == ASSUME SetupInv, NEW l \in ConfigLines, ParseLine(l) PROVE SetupInv'
<1>1. alias = "empty" /\ UNCHANGED <<alias, todo, asked, client>>
  BY Zenon DEF ParseLine
<1>2. EntriesInv'
  BY Zenon, ParseKeeps DEF SetupInv
<1>3. todo = <<>> /\ asked = <<>> /\ client.hostKey = "empty"
  BY Zenon, <1>1 DEF SetupInv, OptionsInv
<1>4. OptionsInv'
  BY <1>1, Zenon DEF SetupInv, OptionsInv
<1>5. ConfigInv' /\ CallerInv'
  BY <1>1, <1>3 DEF ConfigInv, CallerInv, HasLast, HostKeyCalls
<1> QED BY Zenon, <1>2, <1>4, <1>5 DEF SetupInv

LEMMA SetupPreserved == SetupInv /\ [SetupNext]_setupVars => SetupInv'
<1> SUFFICES ASSUME SetupInv, [SetupNext]_setupVars PROVE SetupInv'
  BY Zenon
<1>1. CASE \E l \in ConfigLines : ParseLine(l)
  BY Zenon, <1>1, ParseLineKeeps
<1>2. CASE \E a \in Aliases : NewClientFromConfig(a)
  BY Zenon, <1>2, NewClientKeeps
<1>3. CASE ApplyNext
  BY Zenon, <1>3, ApplyNextKeeps
<1>4. CASE \E o \in CallerOptions : ApplyCaller(o)
  BY Zenon, <1>4, ApplyCallerKeeps
<1>5. CASE \E d \in BOOLEAN : Dial(d)
  BY Zenon, <1>5, DialKeeps
<1>6. CASE UNCHANGED setupVars
  <2>1. UNCHANGED <<hosts, current, alias, todo, asked, client>>
    BY Zenon, <1>6 DEF setupVars
  <2>2. EntriesInv' /\ OptionsInv'
    BY Zenon, <2>1 DEF SetupInv, EntriesInv, OptionsInv
  <2>3. HostKeyCalls' = HostKeyCalls /\ LastHostKey' = LastHostKey /\ Allowed' = Allowed
    BY <2>1 DEF HostKeyCalls, LastHostKey, Allowed
  <2>4. ConfigInv' /\ CallerInv'
    BY <2>1, <2>3, Zenon DEF SetupInv, ConfigInv, CallerInv, HasLast
  <2> QED BY Zenon, <2>2, <2>4 DEF SetupInv
<1> QED BY Zenon, <1>1, <1>2, <1>3, <1>4, <1>5, <1>6 DEF SetupNext

\* ParseSSHConfig, GetHost, NewClientFromConfig and New, then Dial: whatever the
\* lines of the configuration, the alias and the caller's options, a client dials
\* without checking the host key only when the caller's last word on host keys
\* was to, or the alias's own entry says so and the caller nothing.
THEOREM UncheckedOnlyWhenAsked == SetupSpec => []UncheckedWhenAsked
<1>1. SetupInit => SetupInv
  BY Zenon, SetupStarts
<1>2. SetupInv /\ [SetupNext]_setupVars => SetupInv'
  BY Zenon, SetupPreserved
<1>3. SetupInv => UncheckedWhenAsked
  BY Zenon, SetupInvSays
<1> QED BY <1>1, <1>2, <1>3, PTL DEF SetupSpec
=============================================================================
