--------------------------- MODULE ShardProgress ----------------------------
(***************************************************************************)
(* What the upload card shows while the gateway prepares a file: the work  *)
(* done, taken from the statuses of the gateway's job, and a remaining     *)
(* time that counts down between statuses. The effects of a render run     *)
(* with the change that causes it. Times are in ticks of the card's clock, *)
(* products of times rounded down; Absent is null.                           *)
(***************************************************************************)
EXTENDS Integers, Sequences

CONSTANTS
  FileSize,     \* file.size, and so the bytes the job receives
  Steps,        \* steps of encoding and of uploading
  Jump,         \* a remaining time that moved this much is shown at once
  MaxTime,      \* bound: ticks in all
  MaxAttempts   \* bound: gateway uploads started in all

Absent == -1

VARIABLES
  now, processing,
  p,          \* state: shardProgress
  last,       \* gatewayUploadProgressRef
  eta,        \* etaDisplayMsRef, etaLastTickMsRef, etaLastRawMsRef
  job,        \* the job as the gateway has it
  reported,   \* what this attempt's statuses said: work done in the phase on display, bytes
  attempts

vars == <<now, processing, p, last, eta, job, reported, attempts>>

Phases == <<"other", "receiving", "encoding", "uploading", "done">>
NoEta == [shown |-> Absent, tick |-> Absent, raw |-> Absent]
NoProgress == [phase |-> "", done |-> 0, total |-> 0]
Larger(a, b) == IF a > b THEN a ELSE b
Smaller(a, b) == IF a < b THEN a ELSE b
Distance(a, b) == IF a > b THEN a - b ELSE b - a

createInitialShardProgress ==
  [phase |-> "idle", done |-> 0, total |-> 0, bytes |-> 0, bytesTotal |-> 0, start |-> Absent]

(* elapsed / workDone * remaining work; null before the first work done.   *)
etaRaw(q, t) ==
  IF q.done = 0 \/ t = q.start THEN Absent ELSE ((t - q.start) * Larger(0, q.total - q.done)) \div q.done

(* The remaining time: counts down, and is taken over anew when it moved.  *)
CountDown(e, q, t) ==
  LET shown == IF e.shown # Absent /\ e.tick # Absent THEN Larger(0, e.shown - (t - e.tick)) ELSE e.shown
      raw == etaRaw(q, t)
  IN IF raw = Absent THEN [NoEta EXCEPT !.tick = t]
     ELSE IF shown = Absent \/ e.raw = Absent \/ Distance(raw, e.raw) >= Jump
     THEN [shown |-> raw, tick |-> t, raw |-> raw]
     ELSE [e EXCEPT !.shown = shown, !.tick = t]

(* The effects of a render: the per-run reset, then the remaining time.    *)
Resets(q, on) == ~on \/ (q.bytes = 0 /\ (q.bytes # p.bytes \/ q.start # p.start \/ ~processing))
Render(q, on, t) ==
  LET e == IF Resets(q, on) THEN NoEta ELSE eta
  IN /\ p' = q /\ processing' = on /\ now' = t
     /\ eta' = IF on THEN CountDown(e, q, t) ELSE e

-----------------------------------------------------------------------------
Init ==
  /\ now = 1 /\ processing = FALSE /\ p = createInitialShardProgress
  /\ last = NoProgress /\ eta = NoEta
  /\ job = [NoProgress EXCEPT !.phase = "none"] /\ reported = [done |-> 0, bytes |-> 0] /\ attempts = 0

ChooseFile ==
  /\ ~processing /\ attempts < MaxAttempts
  /\ Render([createInitialShardProgress EXCEPT !.phase = "reading", !.bytesTotal = FileSize, !.start = now], TRUE, now)
  /\ reported' = [done |-> 0, bytes |-> 0]
  /\ UNCHANGED <<last, job, attempts>>

Attempt ==
  /\ processing /\ attempts < MaxAttempts
  /\ attempts' = attempts + 1
  /\ job' = [phase |-> "other", done |-> 0, total |-> 0]
  /\ Render([p EXCEPT !.phase = "gateway_receiving", !.done = 0, !.total = FileSize,
                      !.bytesTotal = FileSize, !.bytes = 0], TRUE, now)
  /\ reported' = [done |-> 0, bytes |-> 0]

\* Fault: an attempt starts from the progress of the one before.
runGatewayUploadAgain == Attempt /\ UNCHANGED last

(* runGatewayUpload starts an attempt, on the first gateway or another.    *)
runGatewayUpload == Attempt /\ last' = [NoProgress EXCEPT !.phase = "gateway_receiving"]

(* The gateway's job goes on: its phases in order, the totals of a phase   *)
(* known at once or later.                                                 *)
JobMoves ==
  \E i \in 1..4 :
    /\ job.phase = Phases[i]
    /\ \/ job' = [phase |-> Phases[i + 1], done |-> 0, total |-> 0]
       \/ job.total = 0 /\ i \in 2..4 /\ job' = [job EXCEPT !.total = IF i = 2 THEN FileSize ELSE Steps]
       \/ job.done < job.total /\ job' = [job EXCEPT !.done = @ + 1]
    /\ UNCHANGED <<now, processing, p, last, eta, reported, attempts>>

phaseToDisplay(phase) ==
  CASE phase = "receiving" -> "gateway_receiving" [] phase = "encoding" -> "gateway_encoding"
    [] phase = "uploading" -> "gateway_uploading" [] phase = "done" -> "done" [] OTHER -> "planning"

(* A status arrives. Numbers it leaves out are those shown before, if the  *)
(* phase is the same.                                                      *)
applyProgress ==
  /\ processing /\ job.phase # "none" /\ p.phase # "reading"
  /\ LET phase == phaseToDisplay(job.phase)
         samePhase == last.phase = phase
         total == IF job.total > 0 THEN job.total ELSE IF samePhase THEN last.total ELSE 0
         work == IF job.done > 0 THEN job.done ELSE IF samePhase THEN last.done ELSE 0
         done == IF total > 0 THEN Smaller(work, total) ELSE work
         bytesTotal == IF job.phase = "receiving" THEN job.total ELSE 0
     IN /\ last' = [phase |-> phase, done |-> done, total |-> total]
        /\ Render([p EXCEPT !.phase = phase, !.done = done, !.total = total,
                            !.bytesTotal = IF bytesTotal > 0 THEN bytesTotal ELSE @,
                            !.bytes = IF bytesTotal > 0 THEN Larger(@, Smaller(bytesTotal, job.done)) ELSE @],
                  TRUE, now)
        /\ reported' = [done |-> Larger(job.done, IF p.phase = phase THEN reported.done ELSE 0),
                        bytes |-> IF job.phase = "receiving" THEN Larger(reported.bytes, job.done) ELSE reported.bytes]
  /\ UNCHANGED <<job, attempts>>

(* The clock of the card re-renders it while it is processing.             *)
UiTick ==
  /\ now < MaxTime
  /\ IF processing THEN Render(p, TRUE, now + 1)
     ELSE now' = now + 1 /\ UNCHANGED <<processing, p, eta>>
  /\ UNCHANGED <<last, job, reported, attempts>>

(* The run ends, or the card is reset.                                     *)
EndRun ==
  /\ processing
  /\ Render([p EXCEPT !.phase = "done"], FALSE, now)
  /\ UNCHANGED <<last, job, reported, attempts>>
resetCard ==
  /\ ~processing /\ p.phase # "idle"
  /\ Render(createInitialShardProgress, FALSE, now)
  /\ last' = NoProgress
  /\ UNCHANGED <<job, reported, attempts>>

Next == ChooseFile \/ runGatewayUpload \/ JobMoves \/ applyProgress \/ UiTick \/ EndRun \/ resetCard
Spec == Init /\ [][Next]_vars

-----------------------------------------------------------------------------
TypeOK == now \in 1..MaxTime /\ p.done \in Nat /\ p.bytes \in 0..FileSize /\ eta.shown \in Nat \cup {Absent}

(* What the card makes of it.                                              *)
shardingUi ==
  [done |-> Smaller(p.done, p.total), total |-> p.total,
   eta |-> IF eta.shown # Absent THEN eta.shown ELSE IF processing THEN etaRaw(p, now) ELSE Absent]

(* The card shows no progress the job has not made: within an attempt the  *)
(* work and the bytes are at most what its statuses reported, whatever an  *)
(* earlier attempt or an earlier file had reached, and never more than the *)
(* total. The remaining time shown is nothing or counts down from a value  *)
(* that is still within the threshold of what the work left takes; a card  *)
(* that is not processing shows none.                                      *)
ProgressHonest ==
  /\ processing =>
       /\ p.done <= reported.done /\ p.bytes <= reported.bytes
       /\ shardingUi.total > 0 => p.done <= shardingUi.total
       /\ shardingUi.eta # Absent => /\ shardingUi.eta \in 0..eta.raw
                                   /\ Distance(eta.raw, etaRaw(p, now)) < Jump
  /\ ~processing => eta = NoEta
=============================================================================
