----------------------------- MODULE MCToolLoop -----------------------------
EXTENDS ToolLoop, TLC
CONSTANTS u1, u2
Call(id, tool, args) == [id |-> id, tool |-> tool, args |-> args]
MCBatches ==
  {<<>>,
   <<Call("c1", "ticket_list", "x"), Call("c2", "ticket_list", "x")>>,
   <<Call("c1", "ticket_list", "y"), Call("c2", "ticket_list", "z")>>,
   <<Call("c1", "ticket_list", "y"), Call("c2", "ticket_create", "x")>>,
   <<Call("c1", "ticket_create", "undeclared"), Call("c2", "ticket_list", "x")>>,
   <<Call("c1", "ticket_create", "x"), Call("c2", "ticket_comment", "x")>>,
   <<Call("c1", "ticket_merge", "x"), Call("c2", "no_such_tool", "x")>>}
MCScripts ==
  {<<"answered", "none", "none">>, <<"connect", "answered", "answered">>, <<"lost", "lost", "lost">>,
   <<"refused", "none", "none">>, <<"numberless", "none", "none">>, <<"flagged", "none", "none">>}
MCRuleTools == <<"ticket_create">>
MCAgentTools == DOMAIN TOOLS
=============================================================================
