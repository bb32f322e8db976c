----------------------------- MODULE MCAskForms -----------------------------
EXTENDS AskForms, TLC

CONSTANTS f1, f2, f3, ask1, ask2   \* followers of a conversation, ask_user calls

\* Two followers read the first call, a third one the second.
FollowersCall == f1 :> ask1 @@ f2 :> ask1 @@ f3 :> ask2
=============================================================================
