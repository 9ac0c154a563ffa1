-------------------------- MODULE MC_KafkaConsumer --------------------------
EXTENDS KafkaConsumer, TLC

MemberSymmetry == Permutations(Members)
=============================================================================
