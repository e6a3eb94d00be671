--------------------------------- MODULE Bot ---------------------------------
(***************************************************************************)
(* The repositories of the bot: accounts (BotAccounts) and homework        *)
(* (BotHomework).  BotHomework has logins and leaves of its own, each as   *)
(* the one step that its commit is, so the two stand side by side here and *)
(* share the chats and the teachers only.                                  *)
(***************************************************************************)
EXTENDS BotAccounts

CONSTANTS
  Editor,         \* calls about homework
  Pupil,          \* students who have homework
  Group, GroupOf,
  HomeworkCalls,  \* what an editor may ask
  MaxId, MaxMoves

VARIABLES
  hwHolder, hwUsers, homeworks, links, statuses, reminders, nextId, hwDraft,
  hwCall, hwPc, author, chosen, hwOutcome, allowed, moves

homeworkVars ==
  <<hwHolder, hwUsers, homeworks, links, statuses, reminders, nextId, hwDraft,
    hwCall, hwPc, author, chosen, hwOutcome, allowed, moves>>

ASSUME HomeworkAssumption ==
  \A c \in HomeworkCalls :
    /\ c.op \in {"save", "update", "delete", "done", "remind", "forget"}
    /\ c.subject \in Seq(STRING) /\ c.text \in Seq(STRING)

Homework ==
  INSTANCE BotHomework WITH
    Request <- Editor, Student <- Pupil, Calls <- HomeworkCalls,
    holder <- hwHolder, users <- hwUsers, draft <- hwDraft, call <- hwCall, pc <- hwPc,
    outcome <- hwOutcome

\* What BotHomework promises, as properties of the bot; it is stated there.

\* homework_repository.go: rows belong to homework that exists and is shown.
RowsBelong == Homework!RowsBelong

\* homework_repository.go: "ok" and "not found or forbidden" are true.
AnswersTruthful == Homework!AnswersTruthful

\* homework_repository.go: only its author changes homework.
OnlyAuthorChanges == Homework!OnlyAuthorChanges

==============================================================================
