----------------------------- MODULE Quantities -----------------------------
(***************************************************************************)
(* The quantities (enum class Quantity, quantities.h).                     *)
(***************************************************************************)
EXTENDS Integers, Sequences

(* The quantities in the order of the enumeration, which numbers them from *)
(* 0 on.                                                                   *)
Quantity ==
  << "ut", "la", "lo", "hg84", "hmsl", "vog", "vtw", "hdg", "crs", "mn", "mx", "my",
     "mz", "x", "y", "z", "vx", "vy", "vz", "ax", "ay", "az", "ro", "pi", "ya", "q1",
     "q2", "q3", "q4", "rr", "pr", "yr", "fax", "fay", "faz", "du", "hacc", "vacc",
     "sacc", "cacc", "racc", "pacc", "yacc", "hdac", "rax", "ray", "raz", "rrr",
     "rpr", "ryr", "rmx", "rmy", "rmz", "gtmp", "stmp", "wtmp", "atmp", "etmp", "otmp",
     "vsup", "isup", "vset", "vsig", "frq", "sts0", "sts1", "md0", "md1", "md2", "md3",
     "cst0", "cst1", "cst2", "cst3", "cst4", "cst5", "cst6", "cst7" >>

=============================================================================
