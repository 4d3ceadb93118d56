------------------------------ MODULE SDCardMC ------------------------------
\* Cards for TLC: one of each way of recognition, the oldest without CRC_ON_OFF.
\* The versions of a sector are interchangeable.
EXTENDS SDCard, TLC

AllKinds ==
    [v : {"SDHC", "SD2", "MMC"}, crc : {TRUE}] \cup {[v |-> "SD1", crc |-> FALSE]}

VersionSymmetry == Permutations(Versions)
=============================================================================
