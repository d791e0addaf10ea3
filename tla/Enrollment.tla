----------------------------- MODULE Enrollment -----------------------------
(***************************************************************************)
(* How a collector gets its identity (main.go, export/enroll.go) and how   *)
(* the control plane issues it (ingest/enroll.go).  A collector that finds *)
(* no credential file asks for a credential, saves it and runs under it;   *)
(* one that finds the file runs under what it says; one that cannot decode *)
(* it stops.                                                               *)
(*                                                                         *)
(* Collectors of one host share the file.  Processes and hosts crash at    *)
(* any step, requests and answers get lost, and a client that gave up      *)
(* leaves its handler running.                                             *)
(*                                                                         *)
(* Request n makes credential n: the handler draws a fresh agent id and    *)
(* token for every request.                                                *)
(***************************************************************************)
EXTENDS Integers, Sequences, FiniteSets

CONSTANTS
  Collectors,  \* collector processes
  Hosts,
  HostOf,      \* the host of every collector
  MaxRequests  \* bound: enrollment requests sent

ASSUME HostAssumption == HostOf \in [Collectors -> Hosts]
ASSUME BoundAssumption == MaxRequests \in Nat

VARIABLES
  pc,       \* "down", "load", "requesting", "truncate", "write" or "running"
  cred,     \* the credential in the memory of every collector, 0 if none
  pending,  \* the request every collector waits for, 0 if none
  file,     \* the credential file of every host: a credential, Absent or Torn
  disk,     \* what of it has reached the disk
  place,    \* per request, "posted", "insert" or "done"
  answer,   \* per request, what it was answered: "none", "created" or "error"
  agents,   \* the credentials in the agents table
  ran       \* history: per collector, what it ran under since its host lost its file

client == <<pc, cred, pending, file, disk, ran>>
server == <<place, answer, agents>>
vars == <<client, server>>

Absent == 0
Torn == -1

Requests == DOMAIN place

(* The credential made for request n.  Here and below, an operator named   *)
(* after a mistake is a variant of the one it precedes; no behaviour uses  *)
(* it.                                                                     *)
CredentialOfOnce(n) == 1
CredentialOf(n) == n

Init ==
  /\ pc = [c \in Collectors |-> "down"]
  /\ cred = [c \in Collectors |-> 0]
  /\ pending = [c \in Collectors |-> 0]
  /\ file = [h \in Hosts |-> Absent]
  /\ disk = [h \in Hosts |-> Absent]
  /\ place = << >> /\ answer = << >>
  /\ agents = {}
  /\ ran = [c \in Collectors |-> {}]

-----------------------------------------------------------------------------
(* The collector *)

Goto(c, l) == pc' = [pc EXCEPT ![c] = l]

Die(c) ==
  /\ Goto(c, "down")
  /\ cred' = [cred EXCEPT ![c] = 0]
  /\ pending' = [pending EXCEPT ![c] = 0]

RunUnder(c, n) ==
  /\ Goto(c, "running")
  /\ cred' = [cred EXCEPT ![c] = n]
  /\ pending' = [pending EXCEPT ![c] = 0]
  /\ ran' = [ran EXCEPT ![c] = @ \cup {n}]

Launch(c) ==
  /\ pc[c] = "down"
  /\ Goto(c, "load")
  /\ UNCHANGED <<cred, pending, file, disk, ran, server>>

(* Only a missing file leads to an enrollment. *)
MayEnrollAlways(content) == TRUE
MayEnroll(content) == content = Absent

(* LoadCredential.  A file that does not decode is fatal. *)
Load(c) ==
  LET content == file[HostOf[c]] IN
  /\ pc[c] = "load"
  /\ \/ content \notin {Absent, Torn} /\ RunUnder(c, content) /\ UNCHANGED server
     \/ content = Torn /\ Die(c) /\ UNCHANGED <<ran, server>>
     \/ /\ MayEnroll(content)
        /\ Len(place) < MaxRequests
        /\ Goto(c, "requesting")
        /\ pending' = [pending EXCEPT ![c] = Len(place) + 1]
        /\ place' = Append(place, "posted")
        /\ answer' = Append(answer, "none")
        /\ UNCHANGED <<cred, ran, agents>>
  /\ UNCHANGED <<file, disk>>

ReceiveAnyAnswer(c) ==
  /\ pc[c] = "requesting"
  /\ answer[pending[c]] # "none"
  /\ Goto(c, "truncate")
  /\ cred' = [cred EXCEPT ![c] = IF answer[pending[c]] = "created" THEN pending[c] ELSE 0]
  /\ UNCHANGED <<pending, file, disk, ran, server>>
ReceiveCredential(c) ==
  /\ pc[c] = "requesting"
  /\ answer[pending[c]] = "created"
  /\ Goto(c, "truncate")
  /\ cred' = [cred EXCEPT ![c] = CredentialOf(pending[c])]
  /\ UNCHANGED <<pending, file, disk, ran, server>>

(* os.WriteFile truncates the file, then writes it.  It never syncs. *)
Truncate(c) ==
  /\ pc[c] = "truncate"
  /\ file' = [file EXCEPT ![HostOf[c]] = Torn]
  /\ Goto(c, "write")
  /\ UNCHANGED <<cred, pending, disk, ran, server>>

WriteUnchecked(c) ==
  /\ pc[c] = "write"
  /\ \E content \in {Torn, cred[c]} : file' = [file EXCEPT ![HostOf[c]] = content]
  /\ RunUnder(c, cred[c])
  /\ UNCHANGED <<disk, server>>
Write(c) ==
  /\ pc[c] = "write"
  /\ file' = [file EXCEPT ![HostOf[c]] = cred[c]]
  /\ RunUnder(c, cred[c])
  /\ UNCHANGED <<disk, server>>

(* The process dies: an error of the request (its timeout included), of    *)
(* MkdirAll or of WriteFile is fatal to it, and it may be killed anywhere. *)
Crash(c) ==
  /\ pc[c] # "down"
  /\ Die(c)
  /\ UNCHANGED <<file, disk, ran, server>>

WriteBack(h) ==
  /\ disk[h] # file[h]
  /\ disk' = [disk EXCEPT ![h] = file[h]]
  /\ UNCHANGED <<pc, cred, pending, file, ran, server>>

(* A host crash takes every collector of the host with it.  If the file    *)
(* was not all on the disk, what is left is the file, what the disk had    *)
(* before, or an empty file.                                               *)
HostCrash(h) ==
  LET Kept(value, none) == [c \in Collectors |-> IF HostOf[c] = h THEN none ELSE value[c]] IN
  /\ \E content \in {file[h], disk[h]} \cup (IF disk[h] # file[h] THEN {Torn} ELSE {}) :
       /\ file' = [file EXCEPT ![h] = content]
       /\ disk' = [disk EXCEPT ![h] = content]
       /\ ran' = IF content = file[h] THEN ran ELSE Kept(ran, {})
  /\ pc' = Kept(pc, "down")
  /\ cred' = Kept(cred, 0)
  /\ pending' = Kept(pending, 0)
  /\ UNCHANGED server

-----------------------------------------------------------------------------
(* handleEnroll for request n *)

(* InsertAgent: the row may be committed although an error is returned,    *)
(* but not the other way round.                                            *)
InsertOutcomesIgnored == [committed : BOOLEAN, answer : {"created"}]
InsertOutcomes ==
  {o \in [committed : BOOLEAN, answer : {"created", "error"}] :
     o.answer = "created" => o.committed}

(* The bootstrap key is in order, or the request is answered 401. *)
Authorize(n) ==
  /\ place[n] = "posted"
  /\ \/ place' = [place EXCEPT ![n] = "insert"] /\ UNCHANGED answer
     \/ place' = [place EXCEPT ![n] = "done"] /\ answer' = [answer EXCEPT ![n] = "error"]
  /\ UNCHANGED <<client, agents>>

(* The agent is in the table before the credential is sent. *)
InsertAgent(n) ==
  /\ place[n] = "insert"
  /\ \E o \in InsertOutcomes :
       /\ agents' = IF o.committed THEN agents \cup {CredentialOf(n)} ELSE agents
       /\ answer' = [answer EXCEPT ![n] = o.answer]
  /\ place' = [place EXCEPT ![n] = "done"]
  /\ UNCHANGED client

-----------------------------------------------------------------------------

Collector(c) ==
  \/ Launch(c) \/ Load(c) \/ ReceiveCredential(c) \/ Truncate(c) \/ Write(c) \/ Crash(c)

Next ==
  \/ \E c \in Collectors : Collector(c)
  \/ \E h \in Hosts : WriteBack(h) \/ HostCrash(h)
  \/ \E n \in Requests : Authorize(n) \/ InsertAgent(n)

Spec == Init /\ [][Next]_vars

-----------------------------------------------------------------------------
(* Properties *)

Running == {c \in Collectors : pc[c] = "running"}

(* Types; a collector that waits has a request, one that saves or runs has *)
(* a credential.                                                           *)
TypeOK ==
  /\ pc \in [Collectors -> {"down", "load", "requesting", "truncate", "write", "running"}]
  /\ cred \in [Collectors -> {0} \cup Requests]
  /\ pending \in [Collectors -> {0} \cup Requests]
  /\ file \in [Hosts -> {Absent, Torn} \cup Requests]
  /\ disk \in [Hosts -> {Absent, Torn} \cup Requests]
  /\ place \in Seq({"posted", "insert", "done"})
  /\ answer \in Seq({"none", "created", "error"})
  /\ Len(answer) = Len(place)
  /\ agents \subseteq Requests
  /\ ran \in [Collectors -> SUBSET Requests]
  /\ \A c \in Collectors :
       /\ pc[c] = "requesting" => pending[c] \in Requests
       /\ pc[c] \in {"truncate", "write", "running"} => cred[c] \in Requests

(* Whatever crashes and gets lost, a collector never runs under, and a     *)
(* file never holds, a credential the control plane does not know: its     *)
(* batches would be refused for ever.                                      *)
CredentialsAreKnown ==
  /\ \A c \in Running : cred[c] \in agents
  /\ \A h \in Hosts : file[h] \in Requests => file[h] \in agents

(* Two hosts never run under one identity. *)
NoSharedIdentity ==
  \A c, d \in Running : cred[c] = cred[d] => HostOf[c] = HostOf[d]

(* A collector that has its host to itself keeps its identity across       *)
(* restarts, unless a crash of the host takes the file: a later answer to  *)
(* a request it gave up on never displaces it.                             *)
Alone(c) == \A d \in Collectors \ {c} : HostOf[d] # HostOf[c]

StableIdentity ==
  \A c \in Collectors : Alone(c) => \A m, n \in ran[c] : m = n

(* A collector that has its host to itself runs only under what its next   *)
(* start will find.                                                        *)
RunningIsSaved ==
  \A c \in Running : Alone(c) => file[HostOf[c]] = cred[c]
=============================================================================
