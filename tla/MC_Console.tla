----------------------------- MODULE MC_Console -----------------------------
\* A line that is too long; and one that is corrected and short, with the
\* beginning of another, which the next message overwrites.  Page-Up, Page-Down,
\* the release of Page-Up, and an ordinary key with the same code.
EXTENDS Console

SomeMessages == {<<"b", "c", "d", "LF">>, <<"a", "BS", "BS", "a", "LF", "c", "CR">>}
SomeKeys == {<<"E0", "49">>, <<"E0", "51">>, <<"E0", "C9">>, <<"49">>}
=============================================================================
