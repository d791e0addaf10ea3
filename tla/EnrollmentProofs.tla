-------------------------- MODULE EnrollmentProofs --------------------------
(***************************************************************************)
(* Collectors run under credentials the control plane knows, and no two    *)
(* hosts share one, for any hosts, collectors and number of requests.      *)
(*                                                                         *)
(* Both depend on where a credential can be before a collector runs under  *)
(* it: in an answer on its way, in a collector's memory, in a file, or     *)
(* only on a disk from which a crash brings it back.  The inductive        *)
(* invariant says of all these places that the agents table has what they  *)
(* hold (Known), and that a credential is in places of one host only       *)
(* (OneHolder).  That a collector with a host to itself keeps its identity *)
(* depends on what its file can be at each of its steps (LoneFiles).       *)
(***************************************************************************)
EXTENDS Enrollment, SequenceTheorems, TLAPS

Saving == {"truncate", "write", "running"}

(* Whatever an answer, a collector, a file or a disk holds is in the       *)
(* table.                                                                  *)
Known ==
  /\ \A n \in Requests : answer[n] = "created" => n \in agents
  /\ \A c \in Collectors : pc[c] \in Saving => cred[c] \in agents
  /\ \A h \in Hosts : file[h] \in Requests => file[h] \in agents
  /\ \A h \in Hosts : disk[h] \in Requests => disk[h] \in agents

(* The places of host h that credential n may be in.                       *)
Holds(h, n) ==
  \/ file[h] = n
  \/ disk[h] = n
  \/ \E c \in Collectors : HostOf[c] = h /\ (pending[c] = n \/ cred[c] = n)

(* A credential is in places of one host only.                             *)
OneHolder ==
  \A n \in Requests : \A h, i \in Hosts : Holds(h, n) /\ Holds(i, n) => h = i

(* What the file of a collector with a host to itself says of it.          *)
FileTells(c) ==
  LET content == file[HostOf[c]] IN
  /\ pc[c] \in {"requesting", "truncate"} => content = Absent
  /\ pc[c] = "write" => content = Torn
  /\ pc[c] = "running" => content = cred[c]
  /\ \A n \in ran[c] : content = n

LoneFiles == \A c \in Collectors : Alone(c) => FileTells(c)

IInv == TypeOK /\ Known /\ OneHolder /\ LoneFiles

-----------------------------------------------------------------------------
(* Facts about the sequences of requests *)

LEMMA RequestsAreNumbers ==
  ASSUME TypeOK
  PROVE  /\ Requests = 1 .. Len(place)
         /\ Len(place) \in Nat
         /\ Requests = 1 .. Len(answer)
         /\ Absent \notin Requests /\ Torn \notin Requests
  BY DEF TypeOK, Requests, Absent, Torn

(* A new request keeps the old ones and is none of them.                   *)
LEMMA NewRequest ==
  ASSUME TypeOK, place' = Append(place, "posted"), answer' = Append(answer, "none")
  PROVE  /\ Requests' = Requests \cup {Len(place) + 1}
         /\ Len(place) + 1 \notin Requests
         /\ Len(place) + 1 # 0
         /\ place' \in Seq({"posted", "insert", "done"})
         /\ answer' \in Seq({"none", "created", "error"})
         /\ Len(answer') = Len(place')
         /\ answer'[Len(place) + 1] = "none"
         /\ \A n \in Requests : answer'[n] = answer[n]
<1>1. /\ place \in Seq({"posted", "insert", "done"})
      /\ answer \in Seq({"none", "created", "error"})
      /\ Len(answer) = Len(place)
  BY DEF TypeOK
<1>2. /\ place' \in Seq({"posted", "insert", "done"})
      /\ Len(place') = Len(place) + 1
  BY <1>1
<1>3. /\ answer' \in Seq({"none", "created", "error"})
      /\ Len(answer') = Len(answer) + 1
      /\ answer'[Len(answer) + 1] = "none"
      /\ \A n \in 1 .. Len(answer) : answer'[n] = answer[n]
  BY <1>1
<1>4. Requests' = 1 .. Len(place) + 1 /\ Requests = 1 .. Len(place) /\ Len(place) \in Nat
  BY <1>1, <1>2 DEF Requests
<1> QED BY <1>1, <1>2, <1>3, <1>4

(* A handler's step changes the entries of its own request only.           *)
LEMMA SameRequests ==
  ASSUME TypeOK, NEW n \in Requests, NEW p \in {"posted", "insert", "done"},
         NEW a \in {"none", "created", "error"},
         place' = [place EXCEPT ![n] = p],
         answer' = answer \/ answer' = [answer EXCEPT ![n] = a]
  PROVE  /\ Requests' = Requests
         /\ place' \in Seq({"posted", "insert", "done"})
         /\ answer' \in Seq({"none", "created", "error"})
         /\ Len(answer') = Len(place')
         /\ \A m \in Requests : answer'[m] = answer[m] \/ (m = n /\ answer'[m] = a)
<1>1. /\ place \in Seq({"posted", "insert", "done"})
      /\ answer \in Seq({"none", "created", "error"})
      /\ Len(answer) = Len(place)
  BY DEF TypeOK
<1>2. n \in 1 .. Len(place) /\ n \in 1 .. Len(answer) /\ Requests = 1 .. Len(place)
  BY RequestsAreNumbers
<1>3. place' \in Seq({"posted", "insert", "done"}) /\ Len(place') = Len(place)
  BY <1>1, <1>2, ExceptSeq
<1>4. /\ answer' \in Seq({"none", "created", "error"}) /\ Len(answer') = Len(answer)
      /\ \A m \in 1 .. Len(answer) : answer'[m] = answer[m] \/ (m = n /\ answer'[m] = a)
  BY <1>1, <1>2, ExceptSeq
<1>5. Requests' = 1 .. Len(place')
  BY <1>3 DEF Requests
<1> QED BY <1>1, <1>2, <1>3, <1>4, <1>5

-----------------------------------------------------------------------------
(* Types *)

LEMMA TypesPreserved ==
  ASSUME TypeOK, [Next]_vars
  PROVE  TypeOK'
<1> USE HostAssumption DEF Goto, client, server
<1>1. CASE UNCHANGED vars
  BY <1>1 DEF TypeOK, vars, Requests
<1>2. ASSUME NEW c \in Collectors, Launch(c) PROVE TypeOK'
  BY <1>2 DEF TypeOK, Launch, Requests
<1>3. ASSUME NEW c \in Collectors, Load(c) PROVE TypeOK'
  <2>1. CASE file[HostOf[c]] \notin {Absent, Torn} /\ RunUnder(c, file[HostOf[c]])
             /\ UNCHANGED server
    BY <1>3, <2>1 DEF TypeOK, Load, RunUnder, Requests
  <2>2. CASE Die(c) /\ UNCHANGED <<ran, server>>
    BY <1>3, <2>2 DEF TypeOK, Load, Die, Requests
  <2>3. CASE /\ Goto(c, "requesting")
             /\ pending' = [pending EXCEPT ![c] = Len(place) + 1]
             /\ place' = Append(place, "posted")
             /\ answer' = Append(answer, "none")
             /\ UNCHANGED <<cred, ran, agents>>
    <3>1. Requests' = Requests \cup {Len(place) + 1}
      BY <2>3, NewRequest
    <3>2. UNCHANGED <<file, disk>>
      BY <1>3 DEF Load
    <3>3. /\ pc' \in [Collectors -> {"down", "load", "requesting", "truncate", "write", "running"}]
          /\ pending' \in [Collectors -> {0} \cup Requests']
      BY <2>3, <3>1 DEF TypeOK
    <3>4. /\ cred' \in [Collectors -> {0} \cup Requests']
          /\ file' \in [Hosts -> {Absent, Torn} \cup Requests']
          /\ disk' \in [Hosts -> {Absent, Torn} \cup Requests']
      BY <2>3, <3>1, <3>2 DEF TypeOK
    <3>5. agents' \subseteq Requests' /\ ran' \in [Collectors -> SUBSET Requests']
      BY <2>3, <3>1 DEF TypeOK
    <3>6. \A d \in Collectors :
            /\ pc'[d] = "requesting" => pending'[d] \in Requests'
            /\ pc'[d] \in {"truncate", "write", "running"} => cred'[d] \in Requests'
      BY <2>3, <3>1 DEF TypeOK
    <3> QED BY <2>3, NewRequest, <3>3, <3>4, <3>5, <3>6 DEF TypeOK
  <2> QED BY <1>3, <2>1, <2>2, <2>3 DEF Load
<1>4. ASSUME NEW c \in Collectors, ReceiveCredential(c) PROVE TypeOK'
  BY <1>4 DEF TypeOK, ReceiveCredential, CredentialOf, Requests
<1>5. ASSUME NEW c \in Collectors, Truncate(c) PROVE TypeOK'
  BY <1>5 DEF TypeOK, Truncate, Requests
<1>6. ASSUME NEW c \in Collectors, Write(c) PROVE TypeOK'
  BY <1>6 DEF TypeOK, Write, RunUnder, Requests
<1>7. ASSUME NEW c \in Collectors, Crash(c) PROVE TypeOK'
  BY <1>7 DEF TypeOK, Crash, Die, Requests
<1>8. ASSUME NEW h \in Hosts, WriteBack(h) PROVE TypeOK'
  BY <1>8 DEF TypeOK, WriteBack, Requests
<1>9. ASSUME NEW h \in Hosts, HostCrash(h) PROVE TypeOK'
  BY <1>9 DEF TypeOK, HostCrash, Requests
<1>10. ASSUME NEW n \in Requests, Authorize(n) PROVE TypeOK'
  <2>1. /\ Requests' = Requests
        /\ place' \in Seq({"posted", "insert", "done"})
        /\ answer' \in Seq({"none", "created", "error"})
        /\ Len(answer') = Len(place')
    BY <1>10, SameRequests DEF Authorize
  <2> QED BY <1>10, <2>1 DEF TypeOK, Authorize
<1>11. ASSUME NEW n \in Requests, InsertAgent(n) PROVE TypeOK'
  <2> PICK o \in InsertOutcomes :
        /\ agents' = IF o.committed THEN agents \cup {CredentialOf(n)} ELSE agents
        /\ answer' = [answer EXCEPT ![n] = o.answer]
    BY <1>11 DEF InsertAgent
  <2>1. /\ Requests' = Requests
        /\ place' \in Seq({"posted", "insert", "done"})
        /\ answer' \in Seq({"none", "created", "error"})
        /\ Len(answer') = Len(place')
    BY <1>11, SameRequests DEF InsertAgent, InsertOutcomes
  <2>2. agents' \subseteq Requests
    BY DEF TypeOK, CredentialOf
  <2> QED BY <1>11, <2>1, <2>2 DEF TypeOK, InsertAgent
<1> QED BY <1>1, <1>2, <1>3, <1>4, <1>5, <1>6, <1>7, <1>8, <1>9, <1>10, <1>11
  DEF Next, Collector

-----------------------------------------------------------------------------
(* Known credentials *)

LEMMA KnownPreserved ==
  ASSUME TypeOK, Known, [Next]_vars
  PROVE  Known'
<1> USE HostAssumption DEF Goto, client, server, Saving
<1>1. CASE UNCHANGED vars
  BY <1>1 DEF Known, vars, Requests
<1>2. ASSUME NEW c \in Collectors, Launch(c) PROVE Known'
  BY <1>2 DEF TypeOK, Known, Launch, Requests
<1>3. ASSUME NEW c \in Collectors, Load(c) PROVE Known'
  <2>1. CASE file[HostOf[c]] \notin {Absent, Torn} /\ RunUnder(c, file[HostOf[c]])
             /\ UNCHANGED server
    BY <1>3, <2>1 DEF TypeOK, Known, Load, RunUnder, Requests
  <2>2. CASE Die(c) /\ UNCHANGED <<ran, server>>
    BY <1>3, <2>2 DEF TypeOK, Known, Load, Die, Requests
  <2>3. CASE /\ Goto(c, "requesting")
             /\ pending' = [pending EXCEPT ![c] = Len(place) + 1]
             /\ place' = Append(place, "posted")
             /\ answer' = Append(answer, "none")
             /\ UNCHANGED <<cred, ran, agents>>
    <3>1. UNCHANGED <<file, disk>>
      BY <1>3 DEF Load
    <3>2. \A h \in Hosts : file[h] # Len(place) + 1 /\ disk[h] # Len(place) + 1
      <4>1. Len(place) + 1 \notin Requests /\ Len(place) + 1 # Absent /\ Len(place) + 1 # Torn
        BY RequestsAreNumbers DEF Absent, Torn
      <4> QED BY <4>1 DEF TypeOK
    <3>3. /\ Requests' = Requests \cup {Len(place) + 1}
          /\ answer'[Len(place) + 1] = "none"
          /\ \A n \in Requests : answer'[n] = answer[n]
      BY <2>3, NewRequest
    <3>4. \A n \in Requests' : answer'[n] = "created" => n \in agents'
      BY <2>3, <3>3 DEF Known
    <3>5. \A d \in Collectors : pc'[d] \in Saving => cred'[d] \in agents'
      BY <2>3 DEF TypeOK, Known
    <3>6. \A h \in Hosts : file'[h] \in Requests' => file'[h] \in agents'
      BY <2>3, <3>1, <3>2, <3>3 DEF Known
    <3>7. \A h \in Hosts : disk'[h] \in Requests' => disk'[h] \in agents'
      BY <2>3, <3>1, <3>2, <3>3 DEF Known
    <3> QED BY <3>4, <3>5, <3>6, <3>7 DEF Known
  <2> QED BY <1>3, <2>1, <2>2, <2>3 DEF Load
<1>4. ASSUME NEW c \in Collectors, ReceiveCredential(c) PROVE Known'
  BY <1>4 DEF TypeOK, Known, ReceiveCredential, CredentialOf, Requests
<1>5. ASSUME NEW c \in Collectors, Truncate(c) PROVE Known'
  BY <1>5, RequestsAreNumbers DEF TypeOK, Known, Truncate, Requests
<1>6. ASSUME NEW c \in Collectors, Write(c) PROVE Known'
  BY <1>6 DEF TypeOK, Known, Write, RunUnder, Requests
<1>7. ASSUME NEW c \in Collectors, Crash(c) PROVE Known'
  BY <1>7 DEF TypeOK, Known, Crash, Die, Requests
<1>8. ASSUME NEW h \in Hosts, WriteBack(h) PROVE Known'
  BY <1>8 DEF TypeOK, Known, WriteBack, Requests
<1>9. ASSUME NEW h \in Hosts, HostCrash(h) PROVE Known'
  BY <1>9, RequestsAreNumbers DEF TypeOK, Known, HostCrash, Requests
<1>10. ASSUME NEW n \in Requests, Authorize(n) PROVE Known'
  <2>1. /\ Requests' = Requests
        /\ \A m \in Requests : answer'[m] = answer[m] \/ answer'[m] = "error"
    BY <1>10, SameRequests DEF Authorize
  <2> QED BY <1>10, <2>1 DEF Known, Authorize
<1>11. ASSUME NEW n \in Requests, InsertAgent(n) PROVE Known'
  <2> PICK o \in InsertOutcomes :
        /\ agents' = IF o.committed THEN agents \cup {CredentialOf(n)} ELSE agents
        /\ answer' = [answer EXCEPT ![n] = o.answer]
    BY <1>11 DEF InsertAgent
  <2>1. /\ Requests' = Requests
        /\ \A m \in Requests : answer'[m] = answer[m] \/ (m = n /\ answer'[m] = o.answer)
    BY <1>11, SameRequests DEF InsertAgent, InsertOutcomes
  <2>2. agents \subseteq agents' /\ (o.answer = "created" => n \in agents')
    BY DEF InsertOutcomes, CredentialOf
  <2> QED BY <1>11, <2>1, <2>2 DEF Known, InsertAgent
<1> QED BY <1>1, <1>2, <1>3, <1>4, <1>5, <1>6, <1>7, <1>8, <1>9, <1>10, <1>11
  DEF Next, Collector

-----------------------------------------------------------------------------
(* One host per credential *)

(* A step that puts no credential in places of a host that did not hold it *)
(* before.                                                                 *)
LEMMA NoNewHolder ==
  ASSUME OneHolder, Requests' = Requests,
         \A n \in Requests : \A h \in Hosts : Holds(h, n)' => Holds(h, n)
  PROVE  OneHolder'
  BY DEF OneHolder

LEMMA OneHolderPreserved ==
  ASSUME TypeOK, OneHolder, [Next]_vars
  PROVE  OneHolder'
<1> USE HostAssumption DEF Goto, client, server
<1>0. \A n \in Requests : n # 0 /\ n # Absent /\ n # Torn
  BY RequestsAreNumbers DEF Absent, Torn
<1>1. CASE UNCHANGED vars
  BY <1>1 DEF OneHolder, Holds, vars, Requests
<1>2. ASSUME NEW c \in Collectors, Launch(c) PROVE OneHolder'
  BY <1>2 DEF OneHolder, Holds, Launch, Requests
<1>3. ASSUME NEW c \in Collectors, Load(c) PROVE OneHolder'
  <2> USE DEF Load
  <2>1. CASE file[HostOf[c]] \notin {Absent, Torn} /\ RunUnder(c, file[HostOf[c]])
             /\ UNCHANGED server
    <3>1. \A n \in Requests : \A h \in Hosts : Holds(h, n)' => Holds(h, n)
      BY <1>3, <2>1, <1>0 DEF TypeOK, Holds, RunUnder
    <3> QED BY <2>1, <3>1, NoNewHolder DEF Requests
  <2>2. CASE Die(c) /\ UNCHANGED <<ran, server>>
    <3>1. \A n \in Requests : \A h \in Hosts : Holds(h, n)' => Holds(h, n)
      BY <1>3, <2>2, <1>0 DEF TypeOK, Holds, Die
    <3> QED BY <2>2, <3>1, NoNewHolder DEF Requests
  <2>3. CASE /\ Goto(c, "requesting")
             /\ pending' = [pending EXCEPT ![c] = Len(place) + 1]
             /\ place' = Append(place, "posted")
             /\ answer' = Append(answer, "none")
             /\ UNCHANGED <<cred, ran, agents>>
    <3> PICK new : new = Len(place) + 1
      OBVIOUS
    <3>1. Requests' = Requests \cup {new} /\ new \notin Requests /\ new # 0
      BY <2>3, NewRequest
    <3>2. UNCHANGED <<file, disk>>
      BY <1>3
    <3>3. new # Absent /\ new # Torn
      BY RequestsAreNumbers DEF Absent, Torn
    <3>4. pending' = [pending EXCEPT ![c] = new]
      BY <2>3
    <3>5. ASSUME NEW n \in Requests, NEW h \in Hosts, Holds(h, n)' PROVE Holds(h, n)
      BY <3>5, <2>3, <3>1, <3>2, <3>4 DEF TypeOK, Holds
    <3>6. ASSUME NEW h \in Hosts, Holds(h, new)' PROVE h = HostOf[c]
      BY <3>6, <2>3, <3>1, <3>2, <3>3, <3>4 DEF TypeOK, Holds
    <3> QED BY <3>1, <3>5, <3>6 DEF OneHolder
  <2> QED BY <1>3, <2>1, <2>2, <2>3
<1>4. ASSUME NEW c \in Collectors, ReceiveCredential(c) PROVE OneHolder'
  <2>1. \A n \in Requests : \A h \in Hosts : Holds(h, n)' => Holds(h, n)
    BY <1>4 DEF TypeOK, Holds, ReceiveCredential, CredentialOf
  <2> QED BY <1>4, <2>1, NoNewHolder DEF ReceiveCredential, Requests
<1>5. ASSUME NEW c \in Collectors, Truncate(c) PROVE OneHolder'
  <2>1. \A n \in Requests : \A h \in Hosts : Holds(h, n)' => Holds(h, n)
    BY <1>5, <1>0 DEF TypeOK, Holds, Truncate
  <2> QED BY <1>5, <2>1, NoNewHolder DEF Truncate, Requests
<1>6. ASSUME NEW c \in Collectors, Write(c) PROVE OneHolder'
  <2>1. \A n \in Requests : \A h \in Hosts : Holds(h, n)' => Holds(h, n)
    BY <1>6, <1>0 DEF TypeOK, Holds, Write, RunUnder
  <2> QED BY <1>6, <2>1, NoNewHolder DEF Write, RunUnder, Requests
<1>7. ASSUME NEW c \in Collectors, Crash(c) PROVE OneHolder'
  <2>1. \A n \in Requests : \A h \in Hosts : Holds(h, n)' => Holds(h, n)
    BY <1>7, <1>0 DEF TypeOK, Holds, Crash, Die
  <2> QED BY <1>7, <2>1, NoNewHolder DEF Crash, Requests
<1>8. ASSUME NEW h \in Hosts, WriteBack(h) PROVE OneHolder'
  <2>1. \A n \in Requests : \A i \in Hosts : Holds(i, n)' => Holds(i, n)
    BY <1>8 DEF TypeOK, Holds, WriteBack
  <2> QED BY <1>8, <2>1, NoNewHolder DEF WriteBack, Requests
<1>9. ASSUME NEW h \in Hosts, HostCrash(h) PROVE OneHolder'
  <2>1. \A n \in Requests : \A i \in Hosts : Holds(i, n)' => Holds(i, n)
    BY <1>9, <1>0 DEF TypeOK, Holds, HostCrash
  <2> QED BY <1>9, <2>1, NoNewHolder DEF HostCrash, Requests
<1>10. ASSUME NEW n \in Requests, Authorize(n) PROVE OneHolder'
  <2>1. Requests' = Requests
    BY <1>10, SameRequests DEF Authorize
  <2> QED BY <1>10, <2>1, NoNewHolder DEF Authorize, Holds
<1>11. ASSUME NEW n \in Requests, InsertAgent(n) PROVE OneHolder'
  <2>1. Requests' = Requests
    <3> PICK o \in InsertOutcomes : answer' = [answer EXCEPT ![n] = o.answer]
      BY <1>11 DEF InsertAgent
    <3> QED BY <1>11, SameRequests DEF InsertAgent, InsertOutcomes
  <2> QED BY <1>11, <2>1, NoNewHolder DEF InsertAgent, Holds
<1> QED BY <1>1, <1>2, <1>3, <1>4, <1>5, <1>6, <1>7, <1>8, <1>9, <1>10, <1>11
  DEF Next, Collector

-----------------------------------------------------------------------------
(* The file of a collector alone on its host *)

LEMMA LoneFilesPreserved ==
  ASSUME TypeOK, LoneFiles, [Next]_vars
  PROVE  LoneFiles'
<1> SUFFICES ASSUME NEW c \in Collectors, Alone(c)
             PROVE  FileTells(c)'
  BY DEF LoneFiles, Alone
<1>0. FileTells(c) /\ HostOf[c] \in Hosts
  BY HostAssumption DEF LoneFiles
<1> USE HostAssumption DEF Goto, client, server
<1>a. \A n \in ran[c] : n # Absent /\ n # Torn
  <2>1. ran[c] \subseteq Requests
    BY DEF TypeOK
  <2> QED BY <2>1, RequestsAreNumbers
<1>b. \A d \in Collectors \ {c} : HostOf[d] # HostOf[c]
  BY DEF Alone
<1>1. CASE UNCHANGED vars
  BY <1>0, <1>1 DEF FileTells, vars
<1>2. ASSUME NEW d \in Collectors, Launch(d) PROVE FileTells(c)'
  BY <1>0, <1>2 DEF TypeOK, FileTells, Launch
<1>3. ASSUME NEW d \in Collectors, Load(d) PROVE FileTells(c)'
  BY <1>0, <1>3 DEF TypeOK, FileTells, Load, RunUnder, Die, MayEnroll
<1>4. ASSUME NEW d \in Collectors, ReceiveCredential(d) PROVE FileTells(c)'
  BY <1>0, <1>4 DEF TypeOK, FileTells, ReceiveCredential
<1>5. ASSUME NEW d \in Collectors, Truncate(d) PROVE FileTells(c)'
  BY <1>0, <1>a, <1>b, <1>5 DEF TypeOK, FileTells, Truncate
<1>6. ASSUME NEW d \in Collectors, Write(d) PROVE FileTells(c)'
  BY <1>0, <1>a, <1>b, <1>6 DEF TypeOK, FileTells, Write, RunUnder
<1>7. ASSUME NEW d \in Collectors, Crash(d) PROVE FileTells(c)'
  BY <1>0, <1>7 DEF TypeOK, FileTells, Crash, Die
<1>8. ASSUME NEW h \in Hosts, WriteBack(h) PROVE FileTells(c)'
  BY <1>0, <1>8 DEF FileTells, WriteBack
<1>9. ASSUME NEW h \in Hosts, HostCrash(h) PROVE FileTells(c)'
  BY <1>0, <1>9 DEF TypeOK, FileTells, HostCrash
<1>10. ASSUME NEW n \in Requests, Authorize(n) PROVE FileTells(c)'
  BY <1>0, <1>10 DEF FileTells, Authorize
<1>11. ASSUME NEW n \in Requests, InsertAgent(n) PROVE FileTells(c)'
  BY <1>0, <1>11 DEF FileTells, InsertAgent
<1> QED BY <1>1, <1>2, <1>3, <1>4, <1>5, <1>6, <1>7, <1>8, <1>9, <1>10, <1>11
  DEF Next, Collector

-----------------------------------------------------------------------------
(* The theorems *)

LEMMA Initially ==
  ASSUME Init
  PROVE  IInv
<1>1. Requests = {}
  BY DEF Init, Requests
<1>2. TypeOK
  BY <1>1, HostAssumption DEF Init, TypeOK
<1> QED BY <1>1, <1>2 DEF Init, IInv, Known, Saving, OneHolder,
                              LoneFiles, FileTells, Absent

LEMMA Inductive ==
  ASSUME IInv, [Next]_vars
  PROVE  IInv'
  BY TypesPreserved, KnownPreserved, OneHolderPreserved, LoneFilesPreserved DEF IInv

(* Every state of collectors, files and handlers satisfies the inductive   *)
(* invariant.                                                              *)
THEOREM InvariantHolds == Spec => []IInv
  BY Initially, Inductive, PTL DEF Spec

(* Types, and: a collector that waits has a request, one that saves or     *)
(* runs has a credential.                                                  *)
THEOREM TypeCorrect == Spec => []TypeOK
<1>1. IInv => TypeOK
  BY DEF IInv
<1> QED BY <1>1, InvariantHolds, PTL

(* Whatever crashes and gets lost (main.go, export/enroll.go,              *)
(* ingest/enroll.go), no collector runs under and no file holds a          *)
(* credential that the control plane does not know.                        *)
THEOREM CredentialsKnown == Spec => []CredentialsAreKnown
<1>1. IInv => CredentialsAreKnown
  BY DEF IInv, Known, Saving, CredentialsAreKnown, Running
<1> QED BY <1>1, InvariantHolds, PTL

(* Two hosts never run under one identity.                                 *)
THEOREM IdentitiesDistinct == Spec => []NoSharedIdentity
<1>1. ASSUME IInv PROVE NoSharedIdentity
  <2> SUFFICES ASSUME NEW c \in Running, NEW d \in Running, cred[c] = cred[d]
               PROVE  HostOf[c] = HostOf[d]
    BY DEF NoSharedIdentity
  <2>1. HostOf[c] \in Hosts /\ HostOf[d] \in Hosts /\ cred[c] \in Requests
    BY <1>1, HostAssumption DEF IInv, TypeOK, Running
  <2>2. Holds(HostOf[c], cred[c]) /\ Holds(HostOf[d], cred[c])
    BY DEF Holds, Running
  <2> QED BY <1>1, <2>1, <2>2 DEF IInv, OneHolder
<1> QED BY <1>1, InvariantHolds, PTL

(* A collector alone on its host keeps its identity across restarts unless *)
(* a crash of the host takes the file (main.go:44, export/enroll.go).      *)
THEOREM IdentityStable == Spec => []StableIdentity
<1>1. IInv => StableIdentity
  BY DEF IInv, LoneFiles, FileTells, StableIdentity
<1> QED BY <1>1, InvariantHolds, PTL

(* A collector alone on its host runs only under what its next start will  *)
(* find in the file (SaveCredential before the aggregator starts).         *)
THEOREM IdentitySaved == Spec => []RunningIsSaved
<1>1. IInv => RunningIsSaved
  BY DEF IInv, LoneFiles, FileTells, RunningIsSaved, Running
<1> QED BY <1>1, InvariantHolds, PTL
=============================================================================
