--------------------------- MODULE MCRegistration ---------------------------
(* Registration on two devices with one unit each.                         *)
EXTENDS Registration

MCUnit(u, r, opts) == [id |-> u, profile |-> r, itfs |-> opts]

\* A device has a unit 1 that serves the interface by its profile, or one that
\* uses it as an option.
MCConfigs ==
  {<<MCUnit(1, "server", <<>>)>>, <<MCUnit(1, "blank", <<"client">>)>>}

MCOneConfig == {<<MCUnit(1, "server", <<>>)>>}

\* The base serves it on its unit 0.
MCBaseUnits == <<MCUnit(0, "server", <<>>)>>

MCEnd(d, u) == [device |-> d, unit |-> u]

MCRow(s, i, d) == [source |-> s, itf |-> i, destination |-> d]

\* From a device to the base and back, between two devices, to a unit 0 that a
\* restart left behind, and from anybody.
MCRows ==
  {MCRow(MCEnd(1, 1), "server", MCEnd(0, 0)), MCRow(MCEnd(0, 0), "client", MCEnd(1, 1)),
   MCRow(MCEnd(2, 1), "client", MCEnd(1, 1)), MCRow(MCEnd(1, 1), "any", MCEnd(2, 0)),
   MCRow(MCEnd(3, 255), "any", MCEnd(1, 1))}

MCNoRows == {}

MCEverything ==
  {"deregister", "disconnect", "node_restart", "base_restart", "torn_save", "console"}
MCNobodyLeaves == {"disconnect", "node_restart", "base_restart"}

Symmetry == Permutations(Nodes)
=============================================================================
