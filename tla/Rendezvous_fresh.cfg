SPECIFICATION FairSpec
CONSTANTS
    Buyer = Buyer
    Seller = Seller
    Peers = {Buyer, Seller}
    NoBuffer = NoBuffer
    MaxAttempts = 3
    MaxDoublings = 0
    MaxBackoff = 1
    Wrapped = {3}
    MaxFaults = 0
    MaxQueue = 2
PROPERTY FreshRequestIsIssued
