---------------------------- MODULE MCOperations ----------------------------
EXTENDS Operations

\* 003 and 005 can be repeated throughout, and meet nothing that 002 does not.
Scripts == <<SkillVaultScript[1], SkillVaultScript[2], SkillVaultScript[4]>>

Seeds == <<"s1", "s2", "s3", "s4">>
=============================================================================
