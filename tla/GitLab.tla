------------------------------- MODULE GitLab -------------------------------
(***************************************************************************)
(* From a webhook payload to a decision: internal/gitlab (the parser and   *)
(* the search for issue keys), internal/workflow/rules.go, and the filters *)
(* of the webhook handler that look at the event alone.                    *)
(*                                                                         *)
(* A text (a branch, a title, the commit messages joined by spaces) is a   *)
(* value of which only the mentions of issue keys matter: what the regular *)
(* expression finds in it, in order, and the upper case of each find.      *)
(***************************************************************************)
EXTENDS Integers, Sequences

CONSTANTS Matches,        \* FindAllString: what the pattern finds in each text
          Upper,          \* ToUpper: the issue key each find spells
          NoText,         \* the empty text, of fields an event does not have
          DevelopBranch, MasterBranch, DoneEmoji,
          ZeroSHA         \* before of a push that creates its branch

NoState == "none"

EventType ==
  {"push", "mr_opened", "mr_merged", "mr_draft", "emoji_award", "unrecognized"}

ASSUME GitLabAssumption == \A t \in DOMAIN Matches : Matches[t] \in Seq(DOMAIN Upper)

\* The fields of NormalizedEvent that the handler reads, with before, which it
\* parses again from the payload.
Event(type, key, source, target, title, messages, before, emoji) ==
  [type |-> type, key |-> key, source |-> source, target |-> target,
   title |-> title, messages |-> messages, before |-> before, emoji |-> emoji]

Unrecognized == Event("unrecognized", <<>>, NoText, NoText, NoText, NoText, NoText, NoText)

-----------------------------------------------------------------------------
\* Faulty: the key is that of the project.
ParsePushCoarse(p) ==
  Event("push", <<"push", p.project>>,
        p.branch, NoText, NoText, p.messages, p.before, NoText)

\* The key does not depend on the commits or on after.
ParsePush(p) ==
  Event("push", <<"push", p.project, p.branch, p.before>>,
        p.branch, NoText, NoText, p.messages, p.before, NoText)

ClassifyMR(action, draft) ==
  IF action \in {"open", "reopen", "update"}
  THEN IF draft THEN "mr_draft" ELSE "mr_opened"
  ELSE IF action = "merge" THEN "mr_merged" ELSE "unrecognized"

\* The key has the action and not when it happened: a second reopen, or a second
\* update, of a merge request has the key of the first.
ParseMR(p) ==
  Event(ClassifyMR(p.action, p.draft), <<"mr", p.project, p.iid, p.action>>,
        p.source, p.target, p.title, NoText, NoText, NoText)

\* The merge request of an emoji is optional in the payload.
ParseEmoji(p) ==
  LET of(text) == IF p.hasMR THEN text ELSE NoText
  IN  IF ~p.awardOnMR THEN Unrecognized
      ELSE Event("emoji_award", <<"emoji", p.project, p.name, p.id>>,
                 of(p.source), of(p.target), of(p.title), NoText, NoText, p.name)

Parse(p) ==
  CASE p.kind = "push"          -> ParsePush(p)
    [] p.kind = "merge_request" -> ParseMR(p)
    [] p.kind = "emoji"         -> ParseEmoji(p)
    [] OTHER                    -> Unrecognized

-----------------------------------------------------------------------------
\* Faulty: a key mentioned twice, in any spelling, is found twice.
IssueKeysRepeated(text) ==
  [n \in DOMAIN Matches[text] |-> Upper[Matches[text][n]]]

\* The finds of a text that no earlier one spells, in upper case.
FirstMentions(text) ==
  LET found == Matches[text]
  IN  {n \in DOMAIN found : \A m \in 1..(n - 1) : Upper[found[m]] # Upper[found[n]]}

\* The keys of a text, each by the place of its first mention: the loop over the
\* slice the code returns goes through the places upwards.
IssueKeys(text) == [n \in FirstMentions(text) |-> Upper[Matches[text][n]]]

Mentions(text) == DOMAIN IssueKeys(text) # {}

\* The branch, then the title, then all the commit messages: the first that
\* mentions a key gives all the keys.
IssueKeysFromEvent(e) ==
  IF Mentions(e.source) THEN IssueKeys(e.source)
  ELSE IF Mentions(e.title) THEN IssueKeys(e.title)
  ELSE IssueKeys(e.messages)

\* Where the keys of an event are: one job is enqueued for each place.
Places(e) == DOMAIN IssueKeysFromEvent(e)

IsNewBranch(before) == before \in {ZeroSHA, NoText}

ClassifyPush(e) ==
  IF e.source = DevelopBranch THEN "rfqa"
  ELSE IF e.source = MasterBranch THEN "done"
  ELSE "in_progress"

ClassifyMerge(e) == IF e.target = DevelopBranch THEN "rfqa" ELSE NoState

Classify(e) ==
  CASE e.type = "push"      -> ClassifyPush(e)
    [] e.type = "mr_opened" -> "code_review"
    [] e.type = "mr_merged" -> ClassifyMerge(e)
    [] OTHER                -> NoState

\* Pushes to an existing branch other than develop and master are ignored.
NotNewBranch(e) ==
  /\ e.type = "push" /\ ~IsNewBranch(e.before)
  /\ e.source \notin {DevelopBranch, MasterBranch}

\* The state the handler asks for, with the emoji path beside Classify; the state
\* of the merge request is not looked at.
TargetState(e) ==
  IF e.type = "emoji_award"
  THEN IF e.emoji = DoneEmoji THEN "done" ELSE NoState
  ELSE IF NotNewBranch(e) THEN NoState ELSE Classify(e)

\* The handler goes on to persist the event.
Actionable(e) == TargetState(e) # NoState /\ Places(e) # {}
=============================================================================
