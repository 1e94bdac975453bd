SPECIFICATION Spec
CONSTANTS
    Quantity = {7, 8, 10, 20, 30, 50, 123, 356, 404, 2569}
    Network = {"home"}
    Utility <- Meters
    Gas = "gas"
    MeterType <- Types
    MeterUnit <- Units
    Houses <- SmallHouses
    Systems <- SystemAnswers
    States <- StateAnswers
    Batteries <- BatteryAnswers
INVARIANTS
    IInv
    NoDuplicateSeries
    ShowsLastReading
    SecondariesAreOneAnswer
    DashboardAgrees
