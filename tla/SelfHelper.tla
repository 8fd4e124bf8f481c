----------------------------- MODULE SelfHelper ------------------------------
(***************************************************************************)
(* internal/runner/self_helper.go: the root helper that publishes a batch  *)
(* of staged files, whose owner may still write to them. The request names *)
(* each destination with the hash of "managed" contents.                   *)
(***************************************************************************)
EXTENDS HostFiles

Requested == Whole("managed")

HelperFrame == UNCHANGED <<adoptVars, callVars, torn, source, user>>

Candidate(h, i, b) == cand' = [cand EXCEPT ![h][i] = b]

\* Mutant: the loop over the candidates goes on where the last one ended.
NextFileKeepsAt(h, phase) ==
    /\ at' = [at EXCEPT ![h] = @ + 1]
    /\ step' = [step EXCEPT ![h] = IF at[h] < N THEN @ ELSE phase]

\* The next file of the batch, or the next phase and the first file again.
NextFile(h, phase) ==
    /\ at' = [at EXCEPT ![h] = IF @ < N THEN @ + 1 ELSE 1]
    /\ step' = [step EXCEPT ![h] = IF at[h] < N THEN @ ELSE phase]

\* Nothing is renamed before every candidate is ready.
BadBatch(h) ==
    /\ at' = [at EXCEPT ![h] = 1]
    /\ step' = [step EXCEPT ![h] = "error"]

\* The request is decoded, checked against the policy as a whole, and every
\* staged source is opened.
Request(h) ==
    /\ step[h] = "idle"
    /\ step' = [step EXCEPT ![h] = "prepare"]
    /\ UNCHANGED <<fileVars, at, cand, faults>>
    /\ HelperFrame

\* Mutant: the hash of the copy is not compared.
PrepareUnverified(h) ==
    /\ step[h] = "prepare"
    /\ Candidate(h, at[h], source[h][at[h]])
    /\ NextFile(h, "rename")
    /\ UNCHANGED <<fileVars, faults>>
    /\ HelperFrame

\* A temporary is made beside the destination, and what was copied into it
\* from the open source must have the requested hash.
Prepare(h) ==
    /\ step[h] = "prepare"
    /\ Candidate(h, at[h], source[h][at[h]])
    /\ IF source[h][at[h]] = Requested THEN NextFile(h, "rename") ELSE BadBatch(h)
    /\ UNCHANGED <<fileVars, faults>>
    /\ HelperFrame

Publish(h) ==
    /\ step[h] = "rename"
    /\ Replace(at[h], cand[h][at[h]])
    /\ step' = [step EXCEPT ![h] = "sync"]
    /\ UNCHANGED <<durable, at, cand, faults>>
    /\ HelperFrame

SyncParent(h) ==
    /\ step[h] = "sync"
    /\ durable' = [durable EXCEPT ![at[h]] = file[at[h]]]
    /\ at' = [at EXCEPT ![h] = @ + 1]
    /\ step' = [step EXCEPT ![h] = IF at[h] = N THEN "ok" ELSE "rename"]
    /\ UNCHANGED <<file, last, body, cand, faults>>
    /\ HelperFrame

\* A call fails, the parent of a destination was replaced, or the helper is
\* killed: the files it has renamed stay renamed.
HelperAborts(h) ==
    /\ step[h] \in {"prepare", "rename", "sync"}
    /\ Fault
    /\ IF step[h] = "prepare" THEN BadBatch(h)
       ELSE step' = [step EXCEPT ![h] = "error"] /\ UNCHANGED at
    /\ UNCHANGED <<fileVars, cand>>
    /\ HelperFrame

HelperStep(h) ==
    Request(h) \/ Prepare(h) \/ Publish(h) \/ SyncParent(h) \/ HelperAborts(h)

-------------------------------------------------------------------------------
(* Properties *)

\* A batch is published in order and only once all of it is verified, although
\* staged files may change until they are copied; what is published and synced
\* stays through failures of the rest and power losses.
BatchPublishesVerifiedPrefix ==
    \A h \in Helper : at[h] > 1 /\ step[h] # "prepare" =>
        /\ \A i \in Dest : cand[h][i] = Requested
        /\ \A i \in 1..(at[h] - 1) : durable[i] > N
===============================================================================
