---------------------------- MODULE QueryCommand ----------------------------
(***************************************************************************)
(* `athena-local query` (runQuery of src/cli/run.ts): one statement sent   *)
(* to the running facade, its state polled, and the first page of its      *)
(* result printed.  The command is composed with the facade it talks to,   *)
(* which other clients use, which may be shut down between any two of its  *)
(* requests, and which may be killed and started again.                    *)
(***************************************************************************)
EXTENDS Shutdown, ResultReading

CONSTANTS
    Own,           \* the Start request that the command sends
    DefaultPage,   \* MaxResults of a GetQueryResults without it
    MaxPolls       \* how often the command asks for the state

\* The command sends no ClientRequestToken; the facade makes a fresh one.
ASSUME CommandAssumption ==
    /\ Own \in Starts
    /\ \A c \in Starts : TokenOf[c] = TokenOf[Own] => c = Own
    /\ DefaultPage \in Nat \ {0} /\ MaxPolls \in Nat \ {0}

VARIABLES
    command,       \* where the command is, or how it has ended
    polls,         \* how often it has found the execution under way
    shown          \* the rows it has printed

commandVars == <<db, pc, target, rows, seen, trino, storage, crashes, open,
                 reader, command, polls, shown>>
facadeVars  == <<db, pc, target, rows, seen, trino, storage, crashes, open>>

\* "printed": exit 0.  All others exit 1: the state that was read, no end in
\* time ("late"), an answer that is an error, no answer.
Exits == {"printed", "FAILED", "CANCELLED", "late", "refused", "unreachable"}

CommandInit ==
    /\ ShutdownInit
    /\ ReaderInit
    /\ command = "idle" /\ polls = 0 /\ shown = <<>>

-----------------------------------------------------------------------------
\* StartQueryExecution is sent; without a server the command ends.
SendStart ==
    /\ command = "idle"
    /\ \/ /\ open /\ StartQueryExecution(Own) /\ UNCHANGED open
          /\ command' = "starting"
       \/ /\ ~open /\ UNCHANGED facadeVars
          /\ command' = "unreachable"
    /\ UNCHANGED <<reader, polls, shown>>

\* Its answer, or the end of the connection.
StartAnswered ==
    /\ command = "starting"
    /\ \/ pc[Own] \in {"ok", "returned"} /\ command' = "polling"
       \/ pc[Own] \in {"invalid", "internal"} /\ command' = "refused"
       \/ pc[Own] = "dead" /\ command' = "unreachable"
    /\ UNCHANGED <<facadeVars, reader, polls, shown>>

\* What the answer to the given number of polls leads to: the result, an end,
\* another poll after a pause, or giving up.
afterPoll(state, asked) ==
    IF state = "SUCCEEDED" THEN "fetching"
    ELSE IF state \in terminalQueryStates THEN state
    ELSE IF asked < MaxPolls THEN "polling" ELSE "late"

\* One GetQueryExecution.
Poll ==
    /\ command = "polling" /\ open /\ db[target[Own]] # None
    /\ LET state == db[target[Own]].state
       IN  /\ command' = afterPoll(state, polls + 1)
           /\ polls' = IF state \in terminalQueryStates THEN polls ELSE polls + 1
    /\ UNCHANGED <<facadeVars, reader, shown>>

\* A request that no server takes, or that names an execution the table does
\* not have (any more).
RequestFails ==
    /\ command \in {"polling", "fetching"}
    /\ \/ ~open /\ command' = "unreachable"
       \/ open /\ db[target[Own]] = None /\ command' = "refused"
    /\ UNCHANGED <<facadeVars, reader, polls, shown>>

\* What GetQueryResults gives without MaxResults; an execution that has not
\* succeeded is refused.
firstPage(id) ==
    SubSeq(resultRows(id), 1, sliceSize(0, DefaultPage, Len(resultRows(id))))

\* GetQueryResults, once: what it gives is printed.
PrintResult ==
    /\ command = "fetching" /\ open /\ db[target[Own]] # None
    /\ LET answered == db[target[Own]].state = "SUCCEEDED"
       IN  /\ command' = IF answered THEN "printed" ELSE "refused"
           /\ shown'   = IF answered THEN firstPage(target[Own]) ELSE shown
    /\ UNCHANGED <<facadeVars, reader, polls>>

CommandStep == SendStart \/ StartAnswered \/ Poll \/ RequestFails \/ PrintResult

-----------------------------------------------------------------------------
\* The other clients and the facade itself; nobody else sends the command's
\* Start.
Around ==
    /\ \/ \E c \in Calls : HandlerStep(c) /\ (pc[Own] = "idle" => pc'[Own] = "idle")
       \/ CloseAndStop
       \/ StartAgain
    /\ UNCHANGED <<reader, command, polls, shown>>

ReadElsewhere ==
    /\ open
    /\ \E id \in Starts : GetQueryResults(id)
    /\ UNCHANGED <<open, command, polls, shown>>

CommandNext == CommandStep \/ Around \/ ReadElsewhere

CommandSpec == CommandInit /\ [][CommandNext]_commandVars

(***************************************************************************)
(* Fairness: the command runs, every HTTP exchange of the facade ends, and *)
(* Trino gets on with its queries, with a database or without one.         *)
(***************************************************************************)
IsResumed(c) == pc[c] \in Executing \cup Stopping /\ HandlerStep(c)

FairCommandSpec ==
    /\ CommandSpec
    /\ WF_commandVars(CommandStep)
    /\ \A c \in Calls :
         WF_commandVars(IsResumed(c) /\ UNCHANGED <<reader, command, polls, shown>>)

-----------------------------------------------------------------------------
(***************************************************************************)
(* Properties.                                                             *)
(***************************************************************************)

\* The rows of the command's own query, as Trino sent them, behind the header.
OwnRows == <<Header>> \o [k \in 1..trino[Own].sent |-> <<Own, k>>]

\* What is printed is the beginning of the result of the very statement the
\* command was given, from a query that ran to its end, whatever was
\* cancelled, lost or shut down meanwhile.  (The beginning: NextToken is not
\* followed.)
PrintsItsResult ==
    command = "printed" =>
        /\ trino[Own].state = "finished"
        /\ shown = SubSeq(OwnRows, 1, sliceSize(0, DefaultPage, Len(OwnRows)))

\* How the command ends tells the truth about the execution: an end it names
\* is the one in the table for good, CANCELLED is somebody's Stop, and it
\* never gives up on an execution that is under way, because a Start is not
\* answered before its execution has ended: the first poll decides.
ExitTellsTheOutcome ==
    /\ command \in {"FAILED", "CANCELLED"} /\ db[Own] # None => db[Own].state = command
    /\ command = "printed" /\ db[Own] # None => db[Own].state = "SUCCEEDED"
    /\ command = "CANCELLED" => \E s \in Stops : target[s] = Own
    /\ polls = 0

\* The command ends, also when the facade is shut down or killed under it.
CommandEnds == command = "starting" ~> command \in Exits

=============================================================================
