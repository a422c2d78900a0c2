SPECIFICATION Spec
CONSTANTS
    Configs <- AllConfigs
    MaxAddresses = 2
    MaxLag = 2
    Horizon = 16
INVARIANTS NoSocketLost LeaseInTime EndsInTime TimeoutsEarned OwnTimesAccepted
