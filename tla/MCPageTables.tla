---------------------------- MODULE MCPageTables ----------------------------
(***************************************************************************)
(* Page tables on small machines: pages of two bytes, tables of four       *)
(* entries, a kernel of a table and a half, sizes that are and are not     *)
(* whole pages, a device that reaches into an area already reserved, and   *)
(* too few tables for any core, for one core, and enough for all.          *)
(***************************************************************************)
EXTENDS PageTables

Entry(s, n, t) == [start |-> s, size |-> n, type |-> t, vstart |-> None]

MCMaps ==
  {<<Entry(0, 2, "reserved"), Entry(1, 24, "usable"), Entry(20, 3, "reserved"),
     Entry(24, 4, "reserved")>>,
   <<Entry(0, 20, "usable"), Entry(20, 1, "reserved"), Entry(22, 2, "bad"),
     Entry(30, 2, "hole")>>}

\* local APIC, I/O APIC, an address E820 has already reported
MCAcpi == {<<40, 2>>, <<42, 2>>, <<20, 2>>}

MCDevices == {<<19, 5>>, <<50, 6>>}
=============================================================================
