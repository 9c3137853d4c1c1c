----------------------------- MODULE MCHubLedger -----------------------------
(* Programs of the ledger small enough to explore completely. *)
EXTENDS HubLedger

AnyOf(kinds, at, occ) == [kinds |-> kinds, at |-> at, occ |-> occ]
Do(kind, at, occ) == AnyOf({kind}, at, occ)

\* Steps recorded at one clock, of no known time.
Steps(kinds, at) == [k \in 1 .. Len(kinds) |-> Do(kinds[k], at, Unknown)]

Received == <<Do("receipt", 1, Known(1))>>
Document == Steps(<<"dispatch_prepare", "dispatch_issue">>, 1)

\* A departure of what was received, or of a part of it.
Leave     == Received \o Steps(<<"acceptance">>, 1) \o Document \o <<Do("departure", 2, Known(2))>>
LeavePart == Received \o <<Do("split", 1, Known(1)), Do("acceptance", 1, Unknown)>>
               \o Document \o <<Do("departure", 2, Known(2))>>

\* Any order of the commands on stock on hand, at any place of the sequence.
Handling == {"move", "split", "work_new", "work_replan", "hold_place", "hold_release",
             "disposition", "discrepancy_open", "discrepancy_resolve"}
Mixed == Received \o [k \in 1 .. 3 |-> AnyOf(Handling, 2, Unknown)]

Worked  == Steps(<<"receipt", "move", "work_new", "split", "work_replan", "move">>, 2)
Treated == <<Do("opening", 1, Known(1)), Do("acceptance", 1, Known(1))>>
             \o Steps(<<"hold_place", "split", "hold_place", "hold_release", "hold_place", "hold_release">>, 2)
CountedTwice == <<Do("receipt", 2, Unknown), Do("count_observe", 2, Known(2)),
              AnyOf({"count_post", "move", "split"}, 2, Unknown), AnyOf({"count_post", "move"}, 2, Unknown)>>

Replaced == Steps(<<"receipt", "split", "acceptance", "dispatch_prepare", "dispatch_revise", "dispatch_issue",
                    "dispatch_replace", "departure">>, 2)
HeldLate == Steps(<<"receipt", "acceptance", "split", "dispatch_prepare", "dispatch_issue">>, 2)
              \o <<AnyOf({"hold_place", "departure"}, 2, Unknown), AnyOf({"split", "departure"}, 2, Unknown)>>

Returned  == Leave \o Steps(<<"return", "return">>, 2)
Backwards == <<Do("receipt", 3, Known(3)), Do("acceptance", 2, Known(1)), Do("dispatch_prepare", 1, Unknown),
               Do("dispatch_issue", 3, Unknown), Do("departure", 1, Unknown), Do("return", 3, Unknown),
               Do("move", 2, Unknown)>>

Reviewed == Received \o <<Do("split", 2, Known(2)), Do("hold_place", 3, Known(3)), Do("actual_report", 5, Unknown),
                          Do("actual_review", 5, Known(4)), Do("hold_place", 5, Unknown)>>
ReviewedThenHeld == Received \o <<Do("actual_report", 5, Unknown), Do("actual_review", 5, Known(4)),
                                  Do("hold_place", 5, Unknown)>>
ReviewedTwice == Received \o <<Do("hold_place", 3, Unknown), Do("hold_release", 3, Known(3)),
                               Do("actual_report", 5, Unknown), Do("actual_review", 5, Interval(3, 4)),
                               Do("actual_report", 5, Unknown), Do("actual_review", 5, Known(5))>>
Linked == Leave \o <<Do("actual_report", 5, Interval(1, 9)), Do("actual_link", 5, Known(4))>>

FoundTwice == Leave \o Steps(<<"correction_observe", "correction_found", "move", "correction_observe", "correction_found">>, 3)
FoundLeaves == Leave \o Steps(<<"correction_observe", "correction_found", "acceptance", "dispatch_prepare",
                                "dispatch_issue", "departure">>, 3)
FoundReturned == Leave \o Steps(<<"return", "correction_observe", "correction_found", "return">>, 3)
FoundReviewed == Received \o <<Do("actual_report", 5, Unknown), Do("actual_review", 5, Known(4))>>
                   \o Steps(<<"correction_observe", "correction_found">>, 5)
FoundAdditional == LeavePart \o <<Do("actual_report", 5, Unknown), Do("correction_additional", 5, Known(2))>>
                     \o Steps(<<"correction_observe", "correction_found">>, 5)
FoundTogether == Leave \o Steps(<<"correction_observe", "correction_observe", "correction_found">>, 3)

\* A return, then others, of a departure recorded at a later clock.
ReturnedEarlier == Leave \o Steps(<<"return">>, 1)
                     \o <<AnyOf({"return", "correction_observe"}, 3, Unknown), Do("correction_found", 3, Unknown)>>

\* The history of a population is filled by the review of a group found again.
FilledByFound == LeavePart \o Steps(<<"hold_place", "hold_place", "correction_observe", "correction_found">>, 3)
                   \o <<AnyOf({"acceptance", "hold_place", "hold_release"}, 3, Unknown)>>

Attributed == Leave \o Steps(<<"correction_source", "correction_recipient", "correction_source", "correction_recipient">>, 3)
AttributedPaper == Steps(<<"receipt", "split", "dispatch_prepare", "dispatch_issue", "correction_source",
                           "dispatch_replace", "correction_source", "dispatch_unused">>, 2)

MCPrograms ==
  {Mixed, Worked, Treated, CountedTwice, Replaced, HeldLate, Returned, Backwards, Reviewed, ReviewedThenHeld,
   ReviewedTwice, Linked,
   FoundTwice, FoundLeaves, FoundReturned, FoundReviewed, FoundAdditional, FoundTogether, ReturnedEarlier, FilledByFound, Attributed, AttributedPaper}

ReturnPrograms == {ReturnedEarlier}
ReleasePrograms == {FilledByFound}

Symmetry == Permutations(Labels)

Farm == [id |-> "farm", issuer |-> "maker", certain |-> TRUE]
Coop == [id |-> "coop", issuer |-> None, certain |-> FALSE]
MCAttributions == {Farm, Coop}
=============================================================================
