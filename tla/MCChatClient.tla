----------------------------- MODULE MCChatClient ------------------------------
EXTENDS ChatClient

Replicas == <<"u1", "u2">>
=============================================================================
