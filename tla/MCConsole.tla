----------------------------- MODULE MCConsole ------------------------------
(***************************************************************************)
(* The console's accounts, logins, keys, models and settings, checked in   *)
(* one run.                                                                *)
(* They share no state: a behaviour is a behaviour of one of the parts,    *)
(* chosen at the start, while the others rest.                             *)
(***************************************************************************)
EXTENDS Accounts, Federation, ApiKeys, Catalogue, Settings, TLC

\* The family checked with two writes in a row; the others with one.
WrittenTwice == {"custom_system_prompt"}

VARIABLE part

MCInit ==
    /\ AccountsInit /\ FederationInit /\ ApiKeysInit /\ CatalogueInit
    /\ part \in {"accounts", "federation", "keys", "catalogue", "settings"}
    /\ SettingsInit
    /\ part # "settings" => family = "input_compression" /\ stored = Seeded(1)
    /\ family \notin WrittenTwice => stored # Seeded(1) \/ part # "settings"

MCNext ==
    /\ UNCHANGED part
    /\ \/ part = "accounts" /\ AccountsNext /\ UNCHANGED <<federation, apikeys, catalogue, settings>>
       \/ part = "federation" /\ FederationNext /\ UNCHANGED <<accounts, apikeys, catalogue, settings>>
       \/ part = "keys" /\ ApiKeysNext /\ UNCHANGED <<accounts, federation, catalogue, settings>>
       \/ part = "catalogue" /\ CatalogueNext /\ UNCHANGED <<accounts, federation, apikeys, settings>>
       \/ part = "settings" /\ SettingsNext
            /\ UNCHANGED <<accounts, federation, apikeys, catalogue>>

MCSpec == MCInit /\ [][MCNext]_<<part, accounts, federation, apikeys, catalogue, settings>>

\* The parts take their names and their requests from the same two sets.
MCSymmetry == Permutations(Users) \cup Permutations(Calls)
=============================================================================
