CONSTANTS
    n1 = n1
    Records <- MCRecords
    MaxRelease = 2
    Retention = 1
    MaxRestores = 1
SPECIFICATION Spec
PROPERTIES
    DataIsInCustody
    ForeignSchemaOnlyByHand
    EndsServingOrMarked
    BackupsCatchUp
