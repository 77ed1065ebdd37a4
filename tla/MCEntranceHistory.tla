------------------------- MODULE MCEntranceHistory --------------------------
(* Small instances of EntranceHistory for TLC.                             *)
EXTENDS EntranceHistory

CONSTANTS alice, bob, root, X, W

MCPasswd == <<alice, bob>>
EntryOf(u, s, r) == [login |-> u, session |-> s, remember |-> r]

\* Nobody; alice with a session and bob whose session is not to be remembered;
\* bob without a session.
MCConfs ==
  {<<>>,
   <<EntryOf(alice, X, TRUE), EntryOf(bob, X, FALSE)>>,
   <<EntryOf(bob, NoSession, TRUE)>>}
=============================================================================
