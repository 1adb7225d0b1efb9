----------------------------- MODULE MCServices -----------------------------
(* An account and its sessions, a managed certificate, a wiki page and the  *)
(* express messages of one user share no state, so one of them runs in each *)
(* behaviour: focus names it and the others rest in their first states.     *)
EXTENDS Accounts, Acme, Wiki, Express

VARIABLE focus

servicesVars == <<acvars, mvars, kvars, exvars, focus>>

MCInit ==
    /\ AccountsInit /\ AcmeInit /\ WikiInit /\ ExpressInit
    /\ focus \in {"accounts", "acme", "wiki", "express"}

MCNext ==
    /\ UNCHANGED focus
    /\ \/ focus = "accounts" /\ AccountsNext /\ UNCHANGED <<mvars, kvars, exvars>>
       \/ focus = "acme" /\ AcmeNext /\ UNCHANGED <<acvars, kvars, exvars>>
       \/ focus = "wiki" /\ WikiNext /\ UNCHANGED <<acvars, mvars, exvars>>
       \/ focus = "express" /\ ExpressNext /\ UNCHANGED <<acvars, mvars, kvars>>

MCSpec == MCInit /\ [][MCNext]_servicesVars

(* The component that runs is well typed; the others are where they began. *)
ServicesTypeOK ==
    /\ focus = "accounts" => AccountsTypeOK
    /\ focus = "acme" => AcmeTypeOK
    /\ focus = "wiki" => WikiTypeOK
    /\ focus = "express" => ExpressTypeOK
=============================================================================
