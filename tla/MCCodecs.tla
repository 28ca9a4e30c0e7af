------------------------------ MODULE MCCodecs ------------------------------
(***************************************************************************)
(* The parts of the library that work on the caller's memory: messages     *)
(* that are exchanged, firmware packages, BIOS tables, FRU record tables   *)
(* and auxiliary names.  They have no state in common, and a behaviour is  *)
(* one of an application that uses one of them.                            *)
(***************************************************************************)
EXTENDS Exchange, PackageParser, BiosTables, FruTable, AuxNames

VARIABLE part

allVars == <<part, vars, pkgVars, biosVars, fruVars, auxVars>>

CodecsInit ==
    /\ part \in {"messages", "packages", "bios", "fru", "names"}
    /\ ExchangeInit /\ PackageInit /\ BiosInit /\ FruInit /\ AuxInit

CodecsNext ==
    /\ UNCHANGED part
    /\ \/ /\ part = "messages" /\ ExchangeNext
          /\ UNCHANGED <<pkgVars, biosVars, fruVars, auxVars>>
       \/ /\ part = "packages" /\ PackageNext
          /\ UNCHANGED <<vars, biosVars, fruVars, auxVars>>
       \/ /\ part = "bios" /\ BiosNext
          /\ UNCHANGED <<vars, pkgVars, fruVars, auxVars>>
       \/ /\ part = "fru" /\ FruNext
          /\ UNCHANGED <<vars, pkgVars, biosVars, auxVars>>
       \/ /\ part = "names" /\ AuxNext
          /\ UNCHANGED <<vars, pkgVars, biosVars, fruVars>>

CodecsSpec == CodecsInit /\ [][CodecsNext]_allVars

=============================================================================
