------------------------------- MODULE MCMail -------------------------------
EXTENDS Mail, TLC
CONSTANTS ann, ben, sword, gold

\* Ann has a sword, Ben has the coin that pays for it.
MCStartMoney == ann :> {} @@ ben :> {gold}
MCStartOwner == sword :> ann
=============================================================================
