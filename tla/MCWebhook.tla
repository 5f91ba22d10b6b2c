------------------------------ MODULE MCWebhook ------------------------------
(***************************************************************************)
(* Texts and payloads for the model checking of Webhook.                   *)
(***************************************************************************)
EXTENDS Webhook, TLC

CONSTANTS r1, r2, r3

\* What the pattern of project RIS finds in each text.  The commit messages of
\* DevelopPush mention an issue twice, in two spellings.
Found ==
  "" :> <<>> @@ "develop" :> <<>> @@ "master" :> <<>> @@ "hotfix" :> <<>>
  @@ "RIS-1-login" :> <<"RIS-1">>
  @@ "RIS-2: polish" :> <<"RIS-2">>
  @@ "ris-1: fix RIS-2 RIS-1 for QA" :> <<"ris-1", "RIS-2", "RIS-1">>

InUpperCase == "RIS-1" :> "RIS-1" @@ "ris-1" :> "RIS-1" @@ "RIS-2" :> "RIS-2"

NewBranch   == [kind |-> "push", project |-> 7, branch |-> "RIS-1-login",
                before |-> "0", messages |-> ""]
LaterPush   == [NewBranch EXCEPT !.before = "a"]
DevelopPush == [kind |-> "push", project |-> 7, branch |-> "develop",
                before |-> "a", messages |-> "ris-1: fix RIS-2 RIS-1 for QA"]

\* at tells one occurrence from another; the parser does not read it.
MR(action, draft, target, at) ==
  [kind |-> "merge_request", project |-> 7, iid |-> 3, action |-> action,
   draft |-> draft, source |-> "hotfix", target |-> target,
   title |-> "RIS-2: polish", at |-> at]

Emoji(name, hasMR) ==
  [kind |-> "emoji", project |-> 7, awardOnMR |-> TRUE, name |-> name, id |-> 9,
   hasMR |-> hasMR, source |-> "RIS-1-login", target |-> "develop", title |-> ""]

Other == [kind |-> "pipeline"]

Assorted ==
  {NewBranch, LaterPush, DevelopPush, Other, MR("open", TRUE, "develop", 1),
   MR("open", FALSE, "develop", 1),
   MR("merge", FALSE, "develop", 1), MR("merge", FALSE, "master", 1),
   MR("close", FALSE, "develop", 1), Emoji("thumbsup", TRUE),
   Emoji("thumbsup", FALSE), Emoji("tada", TRUE),
   [Emoji("thumbsup", TRUE) EXCEPT !.awardOnMR = FALSE]}
OnlyDevelop == {DevelopPush}
TwoReopens  == {MR("reopen", FALSE, "develop", 1), MR("reopen", FALSE, "develop", 2)}
=============================================================================
