------------------------------ MODULE MCIntake ------------------------------
\* Every document the checks tell apart, around each limit; up to two at once.
EXTENDS Intake


Sizes == {0, 2, 4}

Pdfs == [type : {"pdf"}, size : Sizes, form : {"plain"}, extent : 0..3]
Zips == [type : {"zip"}, size : Sizes, form : {"plain"}, extent : {0, 2, 3, 4, 5}]

\* A type that is configured without checks, and one that is neither.
Odd == [type : {"tiff", "none"}, size : Sizes, form : {"plain"}, extent : {1}]

Hostile ==
  [type : {"pdf"}, size : Sizes, form : {"unreadable", "encrypted", "unreadable pages"}, extent : {1}]
    \union
  [type : {"zip"}, size : Sizes, form : {"unreadable", "encrypted"}, extent : {1}]

MCDocuments == Pdfs \union Zips \union Odd \union Hostile
=============================================================================
