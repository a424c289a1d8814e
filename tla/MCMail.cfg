SPECIFICATION Spec
CONSTANTS
    ann = ann
    ben = ben
    sword = sword
    gold = gold
    Players = {ann, ben}
    Items = {sword}
    Coins = {gold}
    StartMoney <- MCStartMoney
    StartOwner <- MCStartOwner
    MaxCOD = 1
    MaxMails = 2
    MaxQueue = 2
    MaxDays = 0
    Nobody = Nobody
    NoMail = NoMail
INVARIANTS
    TypeOK
    SavedOnce
    OneHolder
    QueueSavesMemory
PROPERTIES
    PaidOnDelivery
