----------------------------- MODULE ProgressLog -----------------------------
(***************************************************************************)
(* The progress log of a goal (log/RolarProgressLog.ts): lines are         *)
(* buffered and posted to the log service by a timer, when the buffer is   *)
(* full, and when the log is closed.  Posts overlap, fail, and may be      *)
(* stored although the answer is late.                                     *)
(***************************************************************************)
EXTENDS Integers, Sequences, SequencesExt

CONSTANTS
    MaxLines,    \* bound: lines written, named by their number
    BufferSize,  \* lines that fit into the buffer
    Posts,       \* posts that may be under way at once
    MaxFaults    \* bound: posts that fail or time out

VARIABLES
    buffer,   \* lines not posted yet, oldest first
    post,     \* Posts -> the lines under way, Idle
    stored,   \* lines the service has, in its order
    written,  \* number of lines written
    status,   \* "open", "closing": the last post is under way, "closed"
    timedOut, \* history: lines of posts whose answer was late
    excused,  \* history: lines whose post failed, or written after the close
    overlapped, \* history: pairs of lines under way at once, in two posts
    faults

logVars == <<buffer, post, stored, written, status, timedOut, excused, overlapped, faults>>

Idle == [lines |-> <<>>, closes |-> FALSE, busy |-> FALSE]

Init ==
    /\ buffer = <<>> /\ post = [p \in Posts |-> Idle] /\ stored = <<>>
    /\ written = 0 /\ status = "open" /\ timedOut = {}
    /\ excused = {} /\ overlapped = {} /\ faults = 0

UnderWay == UNION {ToSet(post[p].lines) : p \in Posts}

(* postLogs: the buffer is taken, an empty one is posted only to close.    *)
PostLogs(lines, closes) ==
    /\ buffer' = <<>>
    /\ overlapped' = overlapped \cup {{k, l} : k \in ToSet(lines), l \in UnderWay}
    /\ IF closes \/ lines # <<>>
       THEN \E p \in Posts : /\ ~post[p].busy
                             /\ post' = [post EXCEPT ![p] =
                                    [lines |-> lines, closes |-> closes, busy |-> TRUE]]
       ELSE UNCHANGED post

(* A line that makes the buffer too large is posted with it.               *)
Write ==
    LET lines == Append(buffer, written + 1) IN
    /\ written < MaxLines
    /\ written' = written + 1
    /\ IF Len(lines) > BufferSize THEN PostLogs(lines, FALSE)
       ELSE buffer' = lines /\ UNCHANGED <<post, overlapped>>
    /\ excused' = IF status = "open" THEN excused ELSE excused \cup {written + 1}
    /\ UNCHANGED <<stored, status, timedOut, faults>>

FlushDue == buffer # <<>>

(* The interval timer, until the log is closed.                            *)
TimerFlush ==
    /\ status = "open" /\ FlushDue
    /\ PostLogs(buffer, FALSE)
    /\ UNCHANGED <<stored, written, status, timedOut, excused, faults>>

Close ==
    /\ status = "open"
    /\ PostLogs(buffer, TRUE)
    /\ status' = "closing"
    /\ UNCHANGED <<stored, written, timedOut, excused, faults>>

Settle(p) ==
    /\ post' = [post EXCEPT ![p] = Idle]
    /\ status' = IF post[p].closes THEN "closed" ELSE status

Answered(p) ==
    /\ post[p].busy
    /\ stored' = stored \o post[p].lines
    /\ Settle(p)
    /\ UNCHANGED <<buffer, written, timedOut, excused, overlapped, faults>>

AppendLines(lines) == buffer \o lines  \* variant: after those written meanwhile

PutBack(lines) == lines \o buffer

(* The lines go back before those written meanwhile.                       *)
FailedPost(p) ==
    /\ post[p].busy /\ faults < MaxFaults /\ faults' = faults + 1
    /\ buffer' = PutBack(post[p].lines)
    /\ \/ UNCHANGED <<stored, timedOut>>
       \/ /\ stored' = stored \o post[p].lines
          /\ timedOut' = timedOut \cup ToSet(post[p].lines)
    /\ excused' = excused \cup ToSet(post[p].lines)
    /\ Settle(p)
    /\ UNCHANGED <<written, overlapped>>

Next ==
    \/ Write \/ TimerFlush \/ Close
    \/ \E p \in Posts : Answered(p) \/ FailedPost(p)

Spec == Init /\ [][Next]_logVars

(* The timer fires for ever, posts are answered or fail.                   *)
FairSpec ==
    /\ Spec /\ WF_logVars(TimerFlush)
    /\ \A p \in Posts : WF_logVars(Answered(p) \/ FailedPost(p))

---------------------------------------------------------------------------
Lines == 1..written

TypeOK ==
    /\ Len(buffer) <= MaxLines + BufferSize
    /\ written \in 0..MaxLines /\ status \in {"open", "closing", "closed"}
    /\ \A p \in Posts : post[p].busy \/ post[p] = Idle

(* A line is under way, with the service, or in the buffer.  Nobody posts   *)
(* the buffer of a closed log but a later overflow: there a line is left   *)
(* only if its post failed or it was written after the close.              *)
NoLineLost ==
    /\ Lines = ToSet(buffer) \cup UnderWay \cup ToSet(stored)
    /\ status # "open" => ToSet(buffer) \subseteq excused

(* The service has the lines in the order they were written, each once:    *)
(* one that comes after a later one was under way together with it, in a   *)
(* post of its own, or repeats a line whose post was stored but answered   *)
(* too late.                                                               *)
StoredInOrder ==
    \A i, j \in DOMAIN stored : i < j =>
        \/ stored[i] < stored[j]
        \/ {stored[i], stored[j]} \in overlapped
        \/ stored[j] \in timedOut /\ \E k \in 1..(j - 1) : stored[k] = stored[j]

(* A line of an open log is stored in the end, or the log is closed with   *)
(* posts that failed: nobody flushes the buffer of a closed log.           *)
IsOpen(l) == l \in Lines /\ status = "open"
IsDealtWith(l) == l \in ToSet(stored) \/ (status # "open" /\ faults > 0)
EventuallyStored == \A l \in 1..MaxLines : IsOpen(l) ~> IsDealtWith(l)
=============================================================================
