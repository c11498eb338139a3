---------------------------- MODULE StdioServer ----------------------------
(***************************************************************************)
(* mcp.rs around Execution: what a trade-guard-server process reads from   *)
(* stdin and writes to stdout.  A caller may write further lines before    *)
(* the earlier ones are answered; the process takes them one at a time.  A *)
(* submission goes through the steps of Execution, during which other      *)
(* processes, and death, come in between; every other line is answered in  *)
(* one step, because it reads the account of the process itself and at     *)
(* most one statement of the store.                                        *)
(*                                                                         *)
(* A line is a record: kind says what its text is, id whether the message  *)
(* carries one; a caller numbers its lines and uses the number as the id.  *)
(***************************************************************************)
EXTENDS Execution, Tools

CONSTANTS Lines,      \* the lines callers write
          MaxLines,   \* bound on the lines written to one process
          MaxUnread   \* bound on the lines it has not read yet

LineType ==
    [kind : {"blank", "undecodable", "garbage", "message"},
     id : {"absent", "null", "number"},
     method : {"initialize", "ping", "tools/list", "tools/call", "other"},
     tool : ToolNames \cup {"unknown"}, args : ArgumentsType]

ASSUME LinesAssumption ==
    /\ Lines \subseteq LineType
    /\ MaxLines \in Nat /\ MaxUnread \in Nat \ {0}

VARIABLES
    stdin,      \* the lines written to each process since it started
    taken,      \* how many of them it has read
    stdout,     \* the answers it has written
    duplicate   \* was_duplicate of the call it is serving

serverVars == <<stdin, taken, stdout, duplicate>>
allVars == <<vars, serverVars>>

ServerInit ==
    /\ Init
    /\ stdin = [s \in Servers |-> << >>]
    /\ taken = [s \in Servers |-> 0]
    /\ stdout = [s \in Servers |-> << >>]
    /\ duplicate = [s \in Servers |-> FALSE]

Submission(line) ==
    /\ line.kind = "message" /\ line.method = "tools/call"
    /\ line.tool = "authorize-and-submit-paper-order"
    /\ line.args.intent # None

\* The line handle_line answers: Parse error, or anything with an id.
Asks(line) == \/ line.kind = "garbage"
              \/ line.kind = "message" /\ line.id # "absent"

\* The id the answer to the n-th line carries; 0 is null.
AnswerId(line, n) == IF line.kind = "message" /\ line.id = "number" THEN n ELSE 0

\* The process is about to read a line of its stdin.
Reads(s, line) ==
    /\ pc[s] = "idle"
    /\ taken[s] < Len(stdin[s])
    /\ line = stdin[s][taken[s] + 1]

\* One line of stdout: an error of the envelope has no tool.
Envelope(id, form, tool, body) ==
    [id |-> id, form |-> form, tool |-> tool, body |-> body]

Say(s, answer) == stdout' = [stdout EXCEPT ![s] = Append(@, answer)]

-----------------------------------------------------------------------------

\* The caller writes a line.
Write(s, line) ==
    /\ pc[s] # "down"
    /\ Len(stdin[s]) < MaxLines
    /\ Len(stdin[s]) - taken[s] < MaxUnread
    /\ stdin' = [stdin EXCEPT ![s] = Append(@, line)]
    /\ UNCHANGED <<vars, taken, stdout, duplicate>>

Take(s) == taken' = [taken EXCEPT ![s] = @ + 1] /\ UNCHANGED <<stdin, duplicate>>

\* Text that does not parse gets no answer.
BugIgnoreGarbage(s) ==
    /\ \E line \in Lines : /\ Reads(s, line)
                           /\ line.kind \in {"blank", "garbage", "message"}
                           /\ line.kind = "message" => ~Asks(line)
    /\ Take(s)
    /\ UNCHANGED <<vars, stdout>>

\* The loop does not get past a blank line.
BugIgnoreBlank(s) ==
    /\ \E line \in Lines : /\ Reads(s, line)
                           /\ line.kind = "message"
                           /\ ~Asks(line)
    /\ Take(s)
    /\ UNCHANGED <<vars, stdout>>

\* A blank line, or a message without an id: nothing is done.
Ignore(s) ==
    /\ \E line \in Lines : /\ Reads(s, line)
                           /\ line.kind \in {"blank", "message"}
                           /\ ~Asks(line)
    /\ Take(s)
    /\ UNCHANGED <<vars, stdout>>

\* The answer of handle_line to a line that submits nothing.
AnswerTo(s, line, n, now) ==
    IF line.kind = "garbage" THEN Envelope(0, "parse-error", "none", None)
    ELSE IF line.method = "other"
    THEN Envelope(AnswerId(line, n), "method-not-found", "none", None)
    ELSE IF line.method # "tools/call"
    THEN Envelope(AnswerId(line, n), "result", "none", None)
    ELSE LET r == CallTool(line.tool, line.args, rows, acct[s], now)
         IN  Envelope(AnswerId(line, n), IF r.failed THEN "tool-error" ELSE "result",
                      line.tool, r.body)

\* A line that asks for an answer and submits nothing.
AnswerAtOnce(s) ==
    /\ \E line \in Lines, now \in Times :
           /\ Reads(s, line)
           /\ Asks(line) /\ ~Submission(line)
           /\ Say(s, AnswerTo(s, line, taken[s] + 1, now))
    /\ Take(s)
    /\ UNCHANGED vars

\* The statement behind a reading tool fails: the tool answers an error.
ReadFails(s) ==
    /\ failures < MaxStoreFailures
    /\ failures' = failures + 1
    /\ \E line \in Lines :
           /\ Reads(s, line)
           /\ Asks(line) /\ line.method = "tools/call" /\ line.tool \in StoreTools
           /\ Say(s, Envelope(AnswerId(line, taken[s] + 1), "tool-error",
                              line.tool, None))
    /\ Take(s)
    /\ UNCHANGED <<rows, acct, pc, call, replied, applied, booked>>

\* The id is looked at after the tool has been called.
BugStartSubmission(s) ==
    /\ \E line \in Lines : /\ Reads(s, line)
                           /\ Submission(line)
                           /\ Submit(s)
                           /\ call'[s].intent = line.args.intent
                           /\ call'[s].bundle = line.args.bundle
    /\ Take(s)
    /\ UNCHANGED stdout

\* authorize-and-submit-paper-order: the call of Execution begins.
StartSubmission(s) ==
    /\ \E line \in Lines : /\ Reads(s, line)
                           /\ Asks(line) /\ Submission(line)
                           /\ Submit(s)
                           /\ call'[s].intent = line.args.intent
                           /\ call'[s].bundle = line.args.bundle
    /\ Take(s)
    /\ UNCHANGED stdout

\* A step of the call; a hit of the lookup makes the answer a duplicate.
Serve(s) ==
    /\ pc[s] # "reply"
    /\ ServerStep(s)
    /\ duplicate' = [duplicate EXCEPT ![s] = @ \/ (pc[s] = "find" /\ pc'[s] = "reply")]
    /\ UNCHANGED <<stdin, taken, stdout>>

\* An answer that is not marked as a duplicate.
BugSubmissionAnswer(s) ==
    LET id == AnswerId(stdin[s][taken[s]], taken[s])
        tool == "authorize-and-submit-paper-order"
    IN  IF call[s].outcome = None THEN Envelope(id, "tool-error", tool, None)
        ELSE Envelope(id, IF IsAllowed(call[s].outcome) THEN "result" ELSE "tool-error",
                      tool, [outcome |-> call[s].outcome, order |-> call[s].order,
                             duplicate |-> FALSE])

\* The text the submission answers with; a refusal is a tool-level error
\* that carries the outcome.
SubmissionAnswer(s) ==
    LET id == AnswerId(stdin[s][taken[s]], taken[s])
        tool == "authorize-and-submit-paper-order"
    IN  IF call[s].outcome = None THEN Envelope(id, "tool-error", tool, None)
        ELSE Envelope(id, IF IsAllowed(call[s].outcome) THEN "result" ELSE "tool-error",
                      tool, [outcome |-> call[s].outcome, order |-> call[s].order,
                             duplicate |-> duplicate[s]])

AnswerSubmission(s) ==
    /\ Reply(s)
    /\ Say(s, SubmissionAnswer(s))
    /\ duplicate' = [duplicate EXCEPT ![s] = FALSE]
    /\ UNCHANGED <<stdin, taken>>

\* The next process has a stdin and a stdout of its own.
NewStreams(s) ==
    /\ stdin' = [stdin EXCEPT ![s] = << >>]
    /\ taken' = [taken EXCEPT ![s] = 0]
    /\ stdout' = [stdout EXCEPT ![s] = << >>]
    /\ duplicate' = [duplicate EXCEPT ![s] = FALSE]

\* A line that is not UTF-8 is an error of the reader: run_stdio returns it
\* and the process exits.
Undecodable(s) ==
    /\ \E line \in Lines : Reads(s, line) /\ line.kind = "undecodable"
    /\ Crash(s)
    /\ NewStreams(s)

\* Killed, or stdin at its end, or stdout closed.
Die(s) == Crash(s) /\ NewStreams(s)

Start(s) == Restart(s) /\ UNCHANGED serverVars

\* What the process does with what it has read.
ProcessStep(s) ==
    \/ Ignore(s) \/ AnswerAtOnce(s) \/ ReadFails(s) \/ Undecodable(s)
    \/ StartSubmission(s) \/ Serve(s) \/ AnswerSubmission(s)

ServerNext ==
    \E s \in Servers : \/ \E line \in Lines : Write(s, line)
                       \/ ProcessStep(s)
                       \/ Die(s) \/ Start(s)

ServerSpec == ServerInit /\ [][ServerNext]_allVars

\* run_stdio goes on to the next line as long as there is one.
FairServerSpec == ServerSpec /\ \A s \in Servers : WF_allVars(ProcessStep(s))

-----------------------------------------------------------------------------

\* How many of its lines a process is done with.
Done(s) == IF pc[s] \in Steps THEN taken[s] - 1 ELSE taken[s]

\* The numbers of the lines that are done with and ask for an answer.
Asked(s) == Ascending({n \in 1..Done(s) : Asks(stdin[s][n])})

\* One answer per request, in the order of the requests and under their ids:
\* "one response line per request on stdout, blank lines and notifications
\* (no id) produce no response at all", however far ahead the caller writes.
OneAnswerPerRequest ==
    \A s \in Servers :
        LET asked == Asked(s)
        IN  /\ Len(stdout[s]) = Len(asked)
            /\ \A k \in DOMAIN asked :
                   stdout[s][k].id = AnswerId(stdin[s][asked[k]], asked[k])

\* The line the k-th answer of s is an answer to.
Question(s, k) == stdin[s][Asked(s)[k]]

Listings == {"list-recent-decisions", "get-open-orders"}

Decision(key, outcome, order) == [key |-> key, outcome |-> outcome, order |-> order]

DecisionsIn(records) == {Decision(r.key, r.outcome, r.order) : r \in Range(records)}

\* The decisions an answer tells of, under the keys its caller takes them
\* for, given the arguments the caller called with.
Tells(answer, args) ==
    CASE answer.tool \in Listings /\ answer.form = "result" ->
             DecisionsIn(answer.body)
      [] answer.tool = "replay-decision" /\ answer.form = "result" ->
             {Decision(args.key, answer.body.outcome, answer.body.order)}
      [] answer.tool = "authorize-and-submit-paper-order" /\ answer.body # None ->
             {Decision(args.intent.key, answer.body.outcome, answer.body.order)}
      [] OTHER -> {}

\* What the k-th answer of s told.
Told(s, k) == Tells(stdout[s][k], Question(s, k).args)

\* Where the decision of a key stands in the log.
Position(key) == CHOOSE n \in DOMAIN rows : rows[n].rec.key = key

\* Whatever tool tells a caller of a decision, fresh, repeated, replayed or
\* listed, and whichever process made it: it is the recorded decision of the
\* key the caller takes it for.
EveryAnswerRecorded ==
    \A s \in Servers : \A k \in DOMAIN stdout[s] : \A d \in Told(s, k) :
        \E n \in DOMAIN rows :
            d = Decision(rows[n].rec.key, rows[n].rec.outcome, rows[n].rec.order)

\* "Recent audit records, newest first": a listing goes back in time, and
\* what its caller was told of before is in it, or it is full of newer
\* records.
ListingsAreRecent ==
    \A s \in Servers : \A k \in DOMAIN stdout[s] :
        stdout[s][k].tool = "list-recent-decisions" /\ stdout[s][k].form = "result" =>
            LET listed == stdout[s][k].body
                limit == Limit(Question(s, k).args, DefaultListed)
            IN  /\ \A m, n \in DOMAIN listed :
                       m < n => Position(listed[m].key) > Position(listed[n].key)
                /\ \A j \in 1..(k - 1) : \A d \in Told(s, j) :
                       \/ \E n \in DOMAIN listed : listed[n].key = d.key
                       \/ /\ Len(listed) = limit
                          /\ \A n \in DOMAIN listed :
                                 Position(listed[n].key) > Position(d.key)

\* get-open-orders agrees with what the caller was told of its orders before:
\* an order answered as filled or refused is not open, and one answered as
\* acknowledged is, for as long as the scan reaches back to its record.
OpenOrdersAgree ==
    \A s \in Servers : \A k \in DOMAIN stdout[s] :
        stdout[s][k].tool = "get-open-orders" /\ stdout[s][k].form = "result" =>
            LET open == {r.order : r \in Range(stdout[s][k].body)}
                limit == Limit(Question(s, k).args, DefaultScanned)
            IN  \A j \in 1..(k - 1) : \A d \in Told(s, j) :
                    d.order # None =>
                        IF d.order.state = "acknowledged"
                        THEN d.order \in open \/ Len(rows) - Position(d.key) >= limit
                        ELSE \A o \in open : o.key # d.key

\* A submission that came to no outcome may have moved the account.
Unsettled(answer) ==
    answer.tool = "authorize-and-submit-paper-order" /\ answer.body = None

\* What a submission's answer says has been done to the account.
ApplyAnswer(account, answer) ==
    IF /\ answer.tool = "authorize-and-submit-paper-order"
       /\ answer.body # None
       /\ ~answer.body.duplicate
    THEN ApplyOrder(account, answer.body.order)
    ELSE account

\* A new account after the submissions the answers tell of, in order.
AccountAfter(answers) ==
    LET after[n \in 0..Len(answers)] ==
            IF n = 0 THEN NewAccount(StartingCash)
                     ELSE ApplyAnswer(after[n - 1], answers[n])
    IN  after[Len(answers)]

\* A caller that keeps the answers to its submissions can compute every
\* snapshot that follows from them: the fills of the answers that are not
\* duplicates, in order, on a new account; nothing another process, an
\* earlier life of this one, a notification or a replay did is in it.
SnapshotFollowsAnswers ==
    \A s \in Servers : \A k \in DOMAIN stdout[s] :
        LET before == SubSeq(stdout[s], 1, k - 1)
        IN  /\ stdout[s][k].tool = "get-account-snapshot"
            /\ \A j \in DOMAIN before : ~Unsettled(before[j])
            => stdout[s][k].body = AccountAfter(before)

\* A message without an id has no effect at all, a tools/call of the submit
\* tool included: every change of a running process's account, and every new
\* row, belongs to a call somebody asked to be answered.
NotificationsDoNothing ==
    [][\A s \in Servers : pc'[s] # "down" =>
          /\ acct'[s] # acct[s] => Asks(stdin[s][taken[s]])
          /\ pc[s] = "insert" /\ rows' # rows /\ pc'[s] # "insert" =>
                 Asks(stdin[s][taken[s]])]_allVars

\* A process works off whatever has been written to it, unless it ends first:
\* no line, malformed, unknown or failing, makes the loop stop short of the
\* next, and a caller that stops writing has every answer it is going to get.
BacklogIsServed ==
    \A s \in Servers :
        taken[s] < Len(stdin[s]) ~> \/ taken[s] = Len(stdin[s]) /\ pc[s] = "idle"
                                    \/ pc[s] = "down"
=============================================================================
