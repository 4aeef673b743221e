CONSTANTS
    ann = ann
    bob = bob
    Admins = {ann, bob}
    Pages = {ann}
    Legacy = {ann}
    MaxVersion = 4
SPECIFICATION Spec
PROPERTIES
    StalePageNeverOverwrites
CHECK_DEADLOCK FALSE
