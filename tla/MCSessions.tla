------------------------------ MODULE MCSessions ------------------------------
\* An administrator of one tenant, who logs in to another one too, and a user
\* yet to register, whose row names no tenant; two requests at once, two refresh
\* tokens, one recovery, one fault. One session at a time: the properties speak
\* of each session, and sessions only share the statements that revoke them.
EXTENDS Sessions, TLC

CONSTANTS u1, u2, t1, t2

MCMembers == {<<u1, t1>>, <<u1, t2>>, <<u2, t1>>}
MCHome == u1 :> t1 @@ u2 :> None
MCAdmins == {<<u1, t1>>}

Interchangeable == Permutations(Requests)

=============================================================================
