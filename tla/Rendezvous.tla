----------------------------- MODULE Rendezvous -----------------------------
(***************************************************************************)
(* How the ranks of a job find each other (HcclCommInitClusterInfo,        *)
(* cuda/src/hccl.cu:79): every rank counts the ranks in its ranktable;     *)
(* rank 0 writes NCCL's unique identifier to a file; the launch script     *)
(* copies the file to the other nodes; the other ranks poll for it a       *)
(* bounded number of times; all of them join with the identifier.  A file  *)
(* of an earlier run may be lying on any node.                             *)
(***************************************************************************)
EXTENDS Naturals

CONSTANTS
  N,          \* ranks in the ranktable
  IdWords,    \* length of the identifier, in the pieces a write may land in
  MaxPolls    \* attempts of a poll (600 in the code)

ASSUME NAssumption == N \in Nat \ {0}
ASSUME BoundsAssumption == IdWords \in Nat \ {0} /\ MaxPolls \in Nat

Ranks == 0 .. N - 1
(* A process may be started with a rank the table does not have. *)
Started == 0 .. N

(* Identifiers: this run's, an earlier run's, one read in part. *)
Ids == {"ours", "stale", "torn"}
Absent == [id |-> "none", len |-> 0]
Stale == [id |-> "stale", len |-> IdWords]
Files == [id : {"none", "ours", "stale"}, len : 0 .. IdWords]

VARIABLES
  idfile,     \* the identifier file of each rank's node
  at,         \* where each process is, or what it returned
  id,         \* local of each process: the identifier it has
  polls       \* local of each process: attempts so far

rendezvous == <<idfile, at, id, polls>>

Errors == {"E_PARA", "E_NETWORK", "E_INTERNAL"}

RendezvousInit ==
  /\ idfile \in [Ranks -> {Absent, Stale}]
  /\ at = [r \in Started |-> "start"]
  /\ id = [r \in Started |-> "none"]
  /\ polls = [r \in Started |-> 0]

-----------------------------------------------------------------------------
(* nRanks <= 0 || rank >= nRanks *)
CheckTable(r) ==
  /\ at[r] = "start"
  /\ at' = [at EXCEPT ![r] = IF r >= N THEN "E_PARA" ELSE IF r = 0 THEN "open" ELSE "poll"]
  /\ UNCHANGED <<idfile, id, polls>>

(* Rank 0 asks for an identifier; the file is truncated by fopen, or the   *)
(* open fails.                                                             *)
OpenFile ==
  /\ at[0] = "open"
  /\ \/ /\ idfile' = [idfile EXCEPT ![0] = [id |-> "ours", len |-> 0]]
        /\ at' = [at EXCEPT ![0] = "write"]
        /\ id' = [id EXCEPT ![0] = "ours"]
     \/ /\ at' = [at EXCEPT ![0] = "E_NETWORK"]
        /\ UNCHANGED <<idfile, id>>
  /\ UNCHANGED polls

(* fwrite and fclose: the bytes land, in one piece or in several. *)
WriteFile ==
  /\ at[0] = "write" /\ idfile[0].len < IdWords
  /\ \E n \in idfile[0].len + 1 .. IdWords : idfile' = [idfile EXCEPT ![0].len = n]
  /\ UNCHANGED <<at, id, polls>>

(* Neither call's result is looked at: on a full disk rank 0 goes on with  *)
(* a short file.                                                           *)
CloseFile ==
  /\ at[0] = "write"
  /\ at' = [at EXCEPT ![0] = "join"]
  /\ UNCHANGED <<idfile, id, polls>>

(* The launch script waits for a file that is not empty and copies it. *)
CopyFile(r) ==
  /\ r # 0 /\ idfile[0].len > 0 /\ idfile[0].id = "ours"
  /\ idfile' = [idfile EXCEPT ![r] = idfile[0]]
  /\ UNCHANGED <<at, id, polls>>

(* A poll that takes what fread returned without looking at its count. *)
MutantPoll(r) ==
  /\ at[r] = "poll" /\ polls[r] < MaxPolls
  /\ IF idfile[r].id # "none"
     THEN /\ id' = [id EXCEPT ![r] = IF idfile[r].len = IdWords THEN idfile[r].id ELSE "torn"]
          /\ at' = [at EXCEPT ![r] = "join"]
          /\ UNCHANGED polls
     ELSE polls' = [polls EXCEPT ![r] = @ + 1] /\ UNCHANGED <<at, id>>
  /\ UNCHANGED idfile

(* One attempt of at most MaxPolls: only a whole identifier is taken. *)
Poll(r) ==
  /\ at[r] = "poll" /\ polls[r] < MaxPolls
  /\ IF idfile[r].len = IdWords
     THEN /\ id' = [id EXCEPT ![r] = idfile[r].id]
          /\ at' = [at EXCEPT ![r] = "join"]
          /\ UNCHANGED polls
     ELSE polls' = [polls EXCEPT ![r] = @ + 1] /\ UNCHANGED <<at, id>>
  /\ UNCHANGED idfile

(* A poll without a limit: nobody gives up. *)
MutantGiveUp(r) ==
  /\ at[r] = "poll" /\ polls[r] = MaxPolls
  /\ polls' = [polls EXCEPT ![r] = 0]
  /\ UNCHANGED <<idfile, at, id>>

GiveUp(r) ==
  /\ at[r] = "poll" /\ polls[r] = MaxPolls
  /\ at' = [at EXCEPT ![r] = "E_NETWORK"]
  /\ UNCHANGED <<idfile, id, polls>>

(* ncclCommInitRank, external: it returns when all ranks have come with    *)
(* the identifier, and fails when nobody answers at the identifier's       *)
(* address.                                                                *)
Join(r) ==
  /\ at[r] = "join"
  /\ IF id[r] = "ours"
     THEN /\ \A q \in Ranks : at[q] \in {"join", "up"} /\ id[q] = "ours"
          /\ at' = [at EXCEPT ![r] = "up"]
     ELSE at' = [at EXCEPT ![r] = "E_INTERNAL"]
  /\ UNCHANGED <<idfile, id, polls>>

RankStep(r) ==
  \/ CheckTable(r) \/ Poll(r) \/ GiveUp(r) \/ Join(r)
  \/ r = 0 /\ (OpenFile \/ CloseFile)

RendezvousNext ==
  \/ \E r \in Started : RankStep(r)
  \/ WriteFile
  \/ \E r \in Ranks : CopyFile(r)

-----------------------------------------------------------------------------
RendezvousTypeOK ==
  /\ idfile \in [Ranks -> Files]
  /\ at \in [Started -> {"start", "open", "write", "poll", "join", "up"} \cup Errors]
  /\ id \in [Started -> Ids \cup {"none"}]
  /\ polls \in [Started -> 0 .. MaxPolls]

(* No rank joins with a part of an identifier, whatever the writer and the *)
(* copy do while it reads; a rank with the identifier of an earlier run    *)
(* never gets a communicator, and nobody gets one without it.              *)
OneId ==
  \A r \in Started :
    /\ at[r] = "join" => id[r] \in {"ours", "stale"}
    /\ at[r] = "up" => r < N /\ \A q \in Ranks : id[q] = "ours"

(* Every process returns from HcclCommInitClusterInfo, or waits in NCCL    *)
(* for a rank that has returned an error: the poll is what gives up when   *)
(* rank 0 never writes (cuda/src/hccl.cu:91).                              *)
Returned(r) == at[r] = "up" \/ at[r] \in Errors
EachReturns ==
  <>[](\A r \in Started :
         \/ Returned(r)
         \/ at[r] = "join" /\ \E q \in Ranks : at[q] \in Errors)
=============================================================================
