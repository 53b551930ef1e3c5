-------------------------- MODULE MCManagerFactory --------------------------
(* ManagerFactory for TLC: one account and region with two roles.          *)
EXTENDS ManagerFactory

TwoRoles == {<<"111111111111", "us-west-2", "">>, <<"111111111111", "us-west-2", "role">>}
=============================================================================
