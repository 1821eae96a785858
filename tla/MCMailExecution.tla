---------------------------- MODULE MCMailExecution ----------------------------
EXTENDS MailExecution, TLC

Alike == Permutations(Actions) \cup Permutations(Executors)
===============================================================================
