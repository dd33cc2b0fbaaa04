-------------------------------- MODULE Board --------------------------------
(***************************************************************************)
(* The board of a node: the replay of its issue events                     *)
(* (projectBoardFromEvents in cmd/node/main.go) and the workflow that      *)
(* issue.transition is validated against.                                  *)
(*                                                                         *)
(* Summary and priority are set the way the assignee of a create is, and   *)
(* are left out; so are attachments.  The text of a comment is told apart  *)
(* by its event.  The nodes are numbers: the replay compares the signers   *)
(* of events with equal timestamps.                                        *)
(***************************************************************************)
EXTENDS Integers, SequencesExt

CONSTANTS Nodes,    \* the signers
          Issues,   \* issue ids
          Users,    \* who an issue may be assigned to
          Nobody    \* the empty assignee

ASSUME NodesAssumption == Nodes \subseteq Nat
ASSUME NobodyAssumption == Nobody \notin Users

Statuses == {"todo", "in_progress", "code_review", "testing", "done"}

\* validateWorkflowTransition; "" is a request that does not state where the
\* issue comes from.
Unstated == ""
Workflow == {<<"todo", "in_progress">>, <<"in_progress", "todo">>,
             <<"in_progress", "code_review">>, <<"code_review", "in_progress">>,
             <<"code_review", "testing">>, <<"testing", "in_progress">>,
             <<"testing", "done">>}
ValidTransition(from, to) == from = Unstated \/ from = to \/ <<from, to>> \in Workflow

NoCard == [known |-> FALSE, status |-> "todo", archived |-> FALSE,
           assignee |-> Nobody, comments |-> <<>>]

\* Mutant of Before: events with equal timestamps stay in the order of the file.
BeforeByTime(a, b) == a.time < b.time

\* The replay order: timestamp, then signer, then sequence number.
Before(a, b) ==
  \/ a.time < b.time
  \/ a.time = b.time /\ a.signer < b.signer
  \/ a.time = b.time /\ a.signer = b.signer /\ a.seq < b.seq

\* The sort has a place for each row: those that come before it are in front of it,
\* and of equal ones those that are earlier in the file.
InFront(file, j, k) ==
  \/ Before(file[j], file[k])
  \/ j < k /\ ~Before(file[k], file[j])
Place(file, k) == Cardinality({j \in DOMAIN file : InFront(file, j, k)}) + 1
Replayed(file) ==
  [p \in DOMAIN file |-> file[CHOOSE k \in DOMAIN file : Place(file, k) = p]]

\* What one event does to the card of its issue.
CardAfter(card, e) ==
  CASE e.type = "create"     -> [card EXCEPT !.status = "todo",
                                   !.assignee = IF e.arg = Nobody THEN @ ELSE e.arg]
    [] e.type = "transition" -> [card EXCEPT !.status = e.arg]
    [] e.type = "archive"    -> [card EXCEPT !.archived = TRUE]
    [] e.type = "unarchive"  -> [card EXCEPT !.archived = FALSE]
    [] e.type = "comment"    -> [card EXCEPT !.comments = Append(@, <<e.signer, e.seq>>)]
    [] e.type = "reassign"   -> [card EXCEPT !.assignee = e.arg]

Replay(board, e) == [board EXCEPT ![e.issue] = [CardAfter(@, e) EXCEPT !.known = TRUE]]

\* projectBoardFromEvents
BoardOf(rows) == FoldLeft(Replay, [i \in Issues |-> NoCard], rows)
Board(file) == BoardOf(Replayed(file))

\* The issues reassignFromEvents visits: on any column but done.
OpenIssuesOf(board, user) ==
  {i \in Issues : board[i].known /\ board[i].status # "done" /\ board[i].assignee = user}

\* issueExistsInEvents
IssueExists(file, issue) ==
  \E k \in DOMAIN file : file[k].type = "create" /\ file[k].issue = issue

=============================================================================
