--------------------------- MODULE MCConversation ---------------------------
(***************************************************************************)
(* Conversation on small instances: what happens in each deployment.       *)
(***************************************************************************)
EXTENDS Conversation

Scenarios == {
    {"prompt", "followUp", "sync"},         \* a busy user of one device
    {"followUp", "sync", "move"},           \* the conversation is moved before a follow-up
    {"prompt", "check", "bang", "move"},    \* another device moves the conversation
    {"prompt", "sync", "bang", "fail"},     \* replacements and attaches fail
    {"prompt", "check", "read"},            \* the commands are listed meanwhile
    {"followUp", "reload"},                 \* the Pi configuration is reloaded
    {"check", "reload"},
    {"read", "sync", "reload"}}

FailedReplacement == {{"prompt", "fail"}}
=============================================================================
