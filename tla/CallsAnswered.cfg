SPECIFICATION Spec
CONSTANTS
    Numbers <- MCNumbers
    Exponents <- MCExponents
    Candidates <- MCCandidates
    Sizes <- MCSizes
    Groups <- MCGroups
    Generators <- MCGenerators
    Privates <- MCPrivates
    Texts <- MCTexts
    Shifts <- MCShifts
    Keys <- MCKeys
    Random16 <- MCRandom16
    Random8 <- MCRandom8
INVARIANTS GcdsAgree PowersAgree PrimalityTest PeersAgree MessagesReadBack
