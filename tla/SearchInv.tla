----------------------------- MODULE SearchInv -----------------------------
(***************************************************************************)
(* The inductive invariant behind the safety properties of Search: what    *)
(* the history variables know of the present, and what a request's program *)
(* counter says about the rows it holds.                                   *)
(***************************************************************************)
EXTENDS Search

\* The history reaches up to the present.
HistoryOK ==
  \A r \in Requests : pc[r] # "new" =>
    /\ Permitted(call[r]) \subseteq permitted[r]
    /\ kept[r] \subseteq Answered(call[r])
    /\ Answered(call[r]) \subseteq touched[r]

\* A handler only runs the statements of its own operation, and has answered
\* nothing before its end; only a search that has seen its rows ends in a 500.
HandlerOK ==
  \A r \in Requests :
    /\ pc[r] = "new" <=> call[r] = NoCall
    /\ pc[r] # "done" => page[r] = {}
    /\ pc[r] \in Waiting \cup {"new", "lost"} => reply[r] = 0
    /\ pc[r] = "failed" => reply[r] = 500
    /\ pc[r] = "answered" => call[r].op \in {"searchWithAuth", "unanswered"}
    /\ pc[r] = "options" => call[r].op \in OptionReads
    /\ pc[r] \in Waiting => Refusal(call[r].op, call[r].cred) = 0

\* What was read first was there to be seen; the question whose options are
\* about to be read existed.
RowsOK ==
  \A r \in Requests :
    /\ pc[r] = "answered" => Elements(rows[r]) \subseteq permitted[r]
    /\ pc[r] = "options" => /\ call[r].question \in permitted[r]
                            /\ status[call[r].question] # "undrawn"

\* A request holds the first rows of the result as the database may order it.
FirstRows(r) ==
  \E s \in Sorted({q \in Questions : Matches(call[r], q)}) :
     rows[r] = Cut(s, 0, window[r])

\* While nothing changes, an unanswered search holds as many rows as its window takes.
WindowOK ==
  \A r \in Requests : (pc[r] \in Waiting /\ call[r].op = "unanswered") =>
    /\ window[r] >= 1
    /\ pc[r] = "answered" /\ calm[r] => FirstRows(r)

\* A request holds a page that its query may return, as long as nothing changes.
FoundOK ==
  \A r \in Requests : (pc[r] = "answered" /\ call[r].op = "searchWithAuth" /\ calm[r]) =>
    rows[r] \in Found(call[r])

\* The two halves of ErrorsHaveCause: what a failed search has come across at some
\* moment, and what it has met in a result that has not changed.
ErrorsSeen ==
  \A r \in Requests : (reply[r] = 500 /\ pc[r] = "done") =>
    call[r].op \in Searches /\ Suspects(r) \ Translated # {}
ErrorsMet ==
  \A r \in Requests : (reply[r] = 500 /\ pc[r] = "done" /\ calm[r]) => Meets(r)

\* What holds whatever others change.
AnswersOK ==
  /\ TypeOK
  /\ HistoryOK
  /\ HandlerOK
  /\ RowsOK
  /\ ShowsVisible
  /\ FlagsTrue
  /\ EmptyMeansDeleted
  /\ ErrorsSeen

IInv == /\ AnswersOK
        /\ WindowOK
        /\ PageRight
        /\ FoundOK
        /\ ErrorsMet

\* The statements a request may still send: two for each size its window can take.
Work(r) ==
  IF pc[r] \in Waiting
  THEN 2 * (MaxWindow - window[r]) + (IF pc[r] = "select" THEN 2 ELSE 1)
  ELSE 0

\* Every statement brings a request nearer to its end, and nothing that others do
\* takes it back: executeUnansweredSearch only repeats its query with a larger window,
\* of which there are finitely many.
WorkShrinks ==
  [][\A r \in Requests : /\ Serve(r) => Work(r)' < Work(r)
                         /\ pc[r] # "new" => Work(r)' <= Work(r)]_vars
=============================================================================
